---- MODULE Spec2Model ----
(***************************************************************************)
(* nameserver-switcher: the routing state machine (internal/resolver),     *)
(* the pattern matcher (internal/matcher) and the two front ends that      *)
(* drive the router, the DNS UDP/TCP handler (internal/dns) and the gRPC   *)
(* CoreDNS Query method (internal/grpc).                                   *)
(*                                                                         *)
(* A domain name and a regular expression are sequences of one-character   *)
(* strings, so that the trailing-dot strip and the unanchored regexp       *)
(* search are computed, not assumed.  An upstream call is the one place a  *)
(* query task blocks, so a query advances in steps: from its arrival to    *)
(* its first upstream call, from one upstream answer to the next call,     *)
(* and from the last answer to the reply on the transport.                 *)
(***************************************************************************)
EXTENDS Integers, Sequences, FiniteSets, TLC

(***************************************************************************)
(* Bounds of the model.                                                    *)
(***************************************************************************)
\* transaction IDs are 0..MaxId (requests and upstream replies alike)
MaxId == 1
\* a request carries 0..MaxQuestions questions
MaxQuestions == 2

(***************************************************************************)
(* Values.                                                                 *)
(***************************************************************************)
\* a nil resolver interface / a nil error
Nil == "nil"
\* a nil *dns.Msg
NoMsg == [IsNil |-> TRUE]

\* dns.RcodeSuccess, dns.RcodeServerFailure, dns.RcodeNameError
RcodeSuccess == 0
RcodeServerFailure == 2
RcodeNameError == 3

Ids == 0..MaxId

\* query names as they come off the wire (fully qualified)
QNames == { <<"w", "e", ".">>, <<"x", ".">> }

RECURSIVE SeqsUpTo(_, _)
\* all sequences over S of length 0..n
SeqsUpTo(S, n) ==
    IF n = 0 THEN { <<>> }
    ELSE LET shorter == SeqsUpTo(S, n - 1)
         IN  shorter \cup { Append(s, x) : s \in shorter, x \in S }

Questions == [Name : QNames, Qtype : {"A"}]

\* the decoded requests a client can send
Requests ==
    [Id : Ids, Response : {FALSE}, RecursionDesired : BOOLEAN,
     Rcode : {RcodeSuccess}, Question : SeqsUpTo(Questions, MaxQuestions),
     Answer : {<<>>}, Ns : {<<>>}, Extra : {<<>>}]

\* resource records of an upstream answer
RR_A == [Rrtype |-> "A", Target |-> <<>>]
RR_CNAME(target) == [Rrtype |-> "CNAME", Target |-> target]
RR_SOA == [Rrtype |-> "SOA", Target |-> <<>>]

\* the ANSWER sections an upstream returns: none, an address, one CNAME
\* that no list matches, a non-matching CNAME before a matching one, and a
\* CNAME after an address record
UpstreamAnswers ==
    { <<>>,
      <<RR_A>>,
      <<RR_CNAME(<<"x", "y", ".">>)>>,
      <<RR_CNAME(<<"x", "y", ".">>), RR_CNAME(<<"c", "d", ".">>)>>,
      <<RR_A, RR_CNAME(<<"c", "d", ".">>)>> }

\* the replies an upstream returns; a negative answer carries an SOA in
\* its AUTHORITY section, and the ID need not be the request's
UpstreamReplies ==
    { [Id |-> i, Response |-> TRUE, RecursionDesired |-> TRUE,
       Rcode |-> IF a = <<>> THEN RcodeNameError ELSE RcodeSuccess,
       Question |-> <<>>, Answer |-> a,
       Ns |-> IF a = <<>> THEN <<RR_SOA>> ELSE <<>>, Extra |-> <<>>]
      : i \in Ids, a \in UpstreamAnswers }

\* the source strings of request patterns and of CNAME patterns
RequestPatternLists ==
    { << <<"e", ".">> >>,
      << <<"w", "e">>, <<"e">> >> }
CNAMEPatternLists ==
    { << <<"d", ".">> >>,
      << <<"c", "d">>, <<"d">> >> }

(***************************************************************************)
(* internal/matcher                                                        *)
(***************************************************************************)
\* strings.TrimSuffix(s, ".")
TrimSuffixDot(s) ==
    IF Len(s) > 0 /\ s[Len(s)] = "." THEN SubSeq(s, 1, Len(s) - 1) ELSE s

\* regexp.MatchString for the patterns used here: literal characters and
\* the wildcard ".", searched at every offset (no implicit anchoring)
MatchStringAt(p, s, off) ==
    \A j \in 1..Len(p) : p[j] = "." \/ p[j] = s[off + j]
MatchString(p, s) ==
    \E off \in 0..(Len(s) - Len(p)) : MatchStringAt(p, s, off)

\* a nil matcher.Matcher
NoMatcher == [present |-> FALSE, patterns |-> <<>>, raw |-> <<>>]

\* RegexMatcher.Match
Match(m, domain) ==
    LET d == TrimSuffixDot(domain)
    IN  \E i \in 1..Len(m.patterns) : MatchString(m.patterns[i], d)

\* MatchingPattern changed to return the last pattern that matches
MatchingPattern_LastHit(m, domain) ==
    LET d == TrimSuffixDot(domain)
        hits == { i \in 1..Len(m.patterns) : MatchString(m.patterns[i], d) }
    IN  IF hits = {} THEN <<>>
        ELSE m.raw[CHOOSE i \in hits : \A k \in hits : i >= k]

\* RegexMatcher.MatchingPattern: "" (here <<>>) when nothing matches
MatchingPattern(m, domain) ==
    LET d == TrimSuffixDot(domain)
        hits == { i \in 1..Len(m.patterns) : MatchString(m.patterns[i], d) }
    IN  IF hits = {} THEN <<>>
        ELSE m.raw[CHOOSE i \in hits : \A k \in hits : i <= k]

\* strings.TrimSpace, for the blank " "
TrimSpace(p) ==
    LET ink == { i \in 1..Len(p) : p[i] # " " }
    IN  IF ink = {} THEN <<>>
        ELSE SubSeq(p, CHOOSE i \in ink : \A k \in ink : i <= k,
                       CHOOSE i \in ink : \A k \in ink : i >= k)

\* regexp.Compile succeeds: among the characters used here only an opening
\* bracket, which no "]" closes, makes a pattern invalid
CompileOk(p) == \A i \in 1..Len(p) : p[i] # "["

\* the loop of UpdatePatterns and NewRegexMatcher up to entry n: the
\* patterns trimmed, the empty ones skipped
RECURSIVE Trimmed(_, _)
Trimmed(patterns, n) ==
    IF n = 0 THEN <<>>
    ELSE IF TrimSpace(patterns[n]) = <<>> THEN Trimmed(patterns, n - 1)
    ELSE Append(Trimmed(patterns, n - 1), TrimSpace(patterns[n]))

\* the first entry that does not compile, 0 when every entry compiles
FirstInvalid(patterns) ==
    LET bad == { i \in 1..Len(patterns) : ~CompileOk(TrimSpace(patterns[i])) }
    IN  IF bad = {} THEN 0 ELSE CHOOSE i \in bad : \A k \in bad : i <= k

\* the error of NewRegexMatcher: it names the trimmed source string of the
\* first entry that does not compile
NewRegexMatcherErr(patterns) ==
    IF FirstInvalid(patterns) # 0
    THEN <<"invalid regex pattern", TrimSpace(patterns[FirstInvalid(patterns)])>>
    ELSE Nil

\* NewRegexMatcher changed to compile the entries as they are given
NewRegexMatcher_Untrimmed(patterns) ==
    IF \E i \in 1..Len(patterns) : ~CompileOk(patterns[i])
    THEN NoMatcher
    ELSE [present |-> TRUE, patterns |-> patterns, raw |-> patterns]

\* NewRegexMatcher: a nil matcher when an entry does not compile, otherwise
\* the entries trimmed, the empty ones skipped, in input order
NewRegexMatcher(patterns) ==
    IF FirstInvalid(patterns) # 0
    THEN NoMatcher
    ELSE [present |-> TRUE, patterns |-> Trimmed(patterns, Len(patterns)),
          raw |-> Trimmed(patterns, Len(patterns))]

\* UpdatePatterns changed to fill the live list as it compiles, so that the
\* entries before the first invalid one are installed
UpdatePatterns_InPlace(patterns) ==
    IF FirstInvalid(patterns) # 0
    THEN [err |-> "invalid regex pattern", install |-> TRUE,
          new |-> Trimmed(patterns, FirstInvalid(patterns) - 1)]
    ELSE [err |-> Nil, install |-> TRUE, new |-> Trimmed(patterns, Len(patterns))]

\* RegexMatcher.UpdatePatterns up to the lock: everything is compiled into
\* a scratch list; the first invalid pattern returns its error and nothing
\* is installed, otherwise the scratch list is installed
UpdatePatterns(patterns) ==
    IF FirstInvalid(patterns) # 0
    THEN [err |-> "invalid regex pattern", install |-> FALSE, new |-> <<>>]
    ELSE [err |-> Nil, install |-> TRUE, new |-> Trimmed(patterns, Len(patterns))]

\* the first pattern of a compiled list that matches the domain, 0 for none
FirstHit(patterns, domain) ==
    LET hits == { i \in 1..Len(patterns) :
                    MatchString(patterns[i], TrimSuffixDot(domain)) }
    IN  IF hits = {} THEN 0 ELSE CHOOSE i \in hits : \A k \in hits : i <= k

(***************************************************************************)
(* internal/resolver: helpers                                              *)
(***************************************************************************)
\* HasCNAME
HasCNAME(resp) ==
    \E i \in 1..Len(resp.Answer) : resp.Answer[i].Rrtype = "CNAME"

\* ExtractCNAME: the targets of the CNAME records, in answer order
ExtractCNAME(resp) ==
    LET F[i \in 0..Len(resp.Answer)] ==
            IF i = 0 THEN <<>>
            ELSE IF resp.Answer[i].Rrtype = "CNAME"
                 THEN Append(F[i - 1], resp.Answer[i].Target)
                 ELSE F[i - 1]
    IN  F[Len(resp.Answer)]

(***************************************************************************)
(* internal/resolver: Router                                               *)
(***************************************************************************)
RouterConfigs ==
    [ExplicitResolver : {Nil, "explicit"},
     PassthroughResolver : {Nil, "passthrough"},
     NoCnameResponseResolver : {Nil, "no-cname-response"},
     NoCnameMatchResolver : {Nil, "no-cname-match"},
     SystemResolver : {Nil, "system"}]

\* NewRouter changed to let the legacy system resolver, when there is one,
\* serve every slot
NewRouter_SystemEverywhere(cfg) ==
    IF cfg.SystemResolver # Nil
    THEN [explicitResolver |-> cfg.SystemResolver,
          passthroughResolver |-> cfg.SystemResolver,
          noCnameResponseResolver |-> cfg.SystemResolver,
          noCnameMatchResolver |-> cfg.SystemResolver]
    ELSE [explicitResolver |-> cfg.ExplicitResolver,
          passthroughResolver |-> cfg.PassthroughResolver,
          noCnameResponseResolver |-> cfg.NoCnameResponseResolver,
          noCnameMatchResolver |-> cfg.NoCnameMatchResolver]

\* NewRouter: the legacy system resolver fills the empty fallback slots
NewRouter(cfg) ==
    [explicitResolver |-> cfg.ExplicitResolver,
     passthroughResolver |->
        IF cfg.PassthroughResolver = Nil THEN cfg.SystemResolver
        ELSE cfg.PassthroughResolver,
     noCnameResponseResolver |->
        IF cfg.NoCnameResponseResolver = Nil THEN cfg.SystemResolver
        ELSE cfg.NoCnameResponseResolver,
     noCnameMatchResolver |->
        IF cfg.NoCnameMatchResolver = Nil THEN cfg.SystemResolver
        ELSE cfg.NoCnameMatchResolver]

\* the zero RouteResult
RouteResult ==
    [Response |-> NoMsg, ResolverUsed |-> "", RequestMatched |-> FALSE,
     CNAMEMatched |-> FALSE, MatchedPattern |-> <<>>, CNAMEPattern |-> <<>>]

\* a nil *Router (a gRPC server built without a router)
NilRouter == [IsNil |-> TRUE]

\* a nil *RouteResult
NoResult == [IsNil |-> TRUE]

VARIABLES
    router,          \* the Router's four resolver slots (display names)
    requestMatcher,  \* the request-pattern matcher shared by router and admin RPC
    cnameMatcher,    \* the CNAME-pattern matcher
    pc,              \* "idle", "upstream" (blocked in a resolver call), "done"
    transport,       \* "none", "dns" (handleRequest) or "grpc" (Query)
    req,             \* the decoded request of the query in flight
    pending,         \* the resolver call the query is blocked in
    calls,           \* the resolver invocations of this Route call, in order
    result,          \* what Route returned: the RouteResult, or NoResult
    routeErr,        \* what Route returned: the error, or Nil
    sent,            \* what the transport sent: messages (dns) or packets (grpc)
    rpcErr,          \* the RPC error the RPC method returned, or Nil
    rpcResp,         \* the response message of Resolve, GetConfig or an update RPC
    ctxDone,         \* the context of the query in flight is past its deadline
    mu,              \* the RWMutex of the request matcher
    readers,         \* goroutines inside Match, MatchingPattern or Patterns
    writer,          \* the goroutine inside UpdatePatterns
    inForce,         \* per matcher, the list the last effective update asked for
    tasks,           \* concurrent RPC and query goroutines, by matcher call
    handlers,        \* the DNS handler goroutines
    metrics          \* the Metrics object with its active-connections gauge

\* the goroutines on one matcher's mutex, the goroutines of concurrent
\* calls, and the DNS handler goroutines with the gauge
lockVars == <<mu, readers, writer>>
raceVars == <<inForce, tasks>>
gaugeVars == <<handlers, metrics>>
concVars == <<lockVars, raceVars, gaugeVars>>

vars == <<router, requestMatcher, cnameMatcher, pc, transport, req, pending,
          calls, result, routeErr, sent, rpcErr, rpcResp, ctxDone, concVars>>

\* the router slots, by field name
Slots == {"explicitResolver", "passthroughResolver",
          "noCnameResponseResolver", "noCnameMatchResolver"}

\* the resolver held by a slot (Nil when empty)
SlotResolver(slot) == router[slot]

\* the states of a Route call: blocked in a resolver call whose answer is
\* handled by `cont`, returned a result, or returned an error
RouteCall(slot, cont, res) ==
    [kind |-> "call", slot |-> slot, cont |-> cont, result |-> res, err |-> Nil]
RouteOk(res) ==
    [kind |-> "ok", slot |-> "", cont |-> "", result |-> res, err |-> Nil]
RouteFail(msg) ==
    [kind |-> "err", slot |-> "", cont |-> "", result |-> NoResult, err |-> msg]
NoCall == [kind |-> "none", slot |-> "", cont |-> "", result |-> NoResult, err |-> Nil]

\* shouldUseRequestMatcher changed to consult the request matcher only
\* until a first Route call has returned
shouldUseRequestMatcher_UntilFirstReturn(qname) ==
    /\ requestMatcher.present
    /\ Match(requestMatcher, qname)
    /\ \A q \in DOMAIN tasks.query : tasks.query[q].pc # "done"

\* Router.shouldUseRequestMatcher
shouldUseRequestMatcher(qname) ==
    requestMatcher.present /\ Match(requestMatcher, qname)

\* routePassthrough changed to fall back to the no-cname-response slot
\* when the passthrough slot is empty
routePassthrough_Fallback(res) ==
    IF router.passthroughResolver = Nil
    THEN IF router.noCnameResponseResolver = Nil
         THEN RouteFail("no resolver available")
         ELSE RouteCall("noCnameResponseResolver", "finish", res)
    ELSE RouteCall("passthroughResolver", "finish", res)

\* Router.routePassthrough, up to the resolver call
routePassthrough(res) ==
    IF router.passthroughResolver = Nil
    THEN RouteFail("no resolver available")
    ELSE RouteCall("passthroughResolver", "finish", res)

\* useNoCnameMatchResolver changed to use the passthrough slot, as the
\* single system resolver once served every fallback
useNoCnameMatchResolver_Passthrough(res) ==
    IF router.passthroughResolver = Nil
    THEN RouteFail("no resolver available for matched pattern")
    ELSE RouteCall("passthroughResolver", "finish", res)

\* Router.useNoCnameMatchResolver, up to the resolver call
useNoCnameMatchResolver(res) ==
    IF router.noCnameMatchResolver = Nil
    THEN RouteFail("no resolver available for matched pattern")
    ELSE RouteCall("noCnameMatchResolver", "finish", res)

\* Router.useNoCnameResponseResolver, up to the resolver call
useNoCnameResponseResolver(res) ==
    IF router.noCnameResponseResolver = Nil
    THEN RouteFail("no resolver available for matched pattern")
    ELSE RouteCall("noCnameResponseResolver", "finish", res)

\* useFallbackResolver changed to fall through to passthrough when the
\* no-cname-response slot is empty
useFallbackResolver_FallThrough(res) ==
    IF router.noCnameResponseResolver = Nil
    THEN routePassthrough(res)
    ELSE useNoCnameResponseResolver(res)

\* Router.useFallbackResolver
useFallbackResolver(res) == useNoCnameResponseResolver(res)

\* handleMatchedCNAME changed to inspect the second explicit reply like
\* the first, following the CNAME chain
handleMatchedCNAME_Reinspect(cname, res) ==
    RouteCall("explicitResolver", "processExplicitResponse",
              [res EXCEPT !.CNAMEMatched = TRUE,
                          !.CNAMEPattern = MatchingPattern(cnameMatcher, cname)])

\* handleMatchedCNAME changed to report the CNAME match in a fresh result
handleMatchedCNAME_FreshResult(cname, res) ==
    RouteCall("explicitResolver", "finish",
              [RouteResult EXCEPT !.CNAMEMatched = TRUE,
                                  !.CNAMEPattern = MatchingPattern(cnameMatcher, cname)])

\* Router.handleMatchedCNAME, up to the second explicit call
handleMatchedCNAME(cname, res) ==
    RouteCall("explicitResolver", "finish",
              [res EXCEPT !.CNAMEMatched = TRUE,
                          !.CNAMEPattern = MatchingPattern(cnameMatcher, cname)])

\* processCNAMEMatch changed to test the first CNAME target only
processCNAMEMatch_FirstOnly(resp, res) ==
    LET cnames == ExtractCNAME(resp)
    IN  IF Len(cnames) > 0 /\ Match(cnameMatcher, TrimSuffixDot(cnames[1]))
        THEN handleMatchedCNAME(TrimSuffixDot(cnames[1]), res)
        ELSE useNoCnameMatchResolver(res)

\* Router.processCNAMEMatch: the first CNAME target, in answer order, that
\* the CNAME matcher matches decides; none matching goes to no-cname-match
processCNAMEMatch(resp, res) ==
    LET cnames == ExtractCNAME(resp)
        hits == { i \in 1..Len(cnames) :
                    Match(cnameMatcher, TrimSuffixDot(cnames[i])) }
    IN  IF hits # {}
        THEN handleMatchedCNAME(
                 TrimSuffixDot(cnames[CHOOSE i \in hits : \A k \in hits : i <= k]),
                 res)
        ELSE useNoCnameMatchResolver(res)

\* processExplicitResponse changed to treat an absent CNAME matcher as a
\* CNAME that matches nothing
processExplicitResponse_NilMatcherNoMatch(resp, res) ==
    IF ~HasCNAME(resp) THEN useNoCnameResponseResolver(res)
    ELSE IF ~cnameMatcher.present THEN useNoCnameMatchResolver(res)
    ELSE processCNAMEMatch(resp, res)

\* Router.processExplicitResponse
processExplicitResponse(resp, res) ==
    IF ~HasCNAME(resp) THEN useNoCnameResponseResolver(res)
    ELSE IF ~cnameMatcher.present THEN useNoCnameResponseResolver(res)
    ELSE processCNAMEMatch(resp, res)

\* Router.routeMatchedRequest, up to the first explicit call
routeMatchedRequest(qname, res) ==
    LET matched == [res EXCEPT !.RequestMatched = TRUE,
                        !.MatchedPattern = MatchingPattern(requestMatcher, qname)]
    IN  IF router.explicitResolver = Nil
        THEN useFallbackResolver(matched)
        ELSE RouteCall("explicitResolver", "processExplicitResponse", matched)

\* Route changed to send a request without a question to the passthrough
\* resolver
Route_NoQuestionPassthrough(r) ==
    IF Len(r.Question) = 0
    THEN routePassthrough(RouteResult)
    ELSE LET qname == TrimSuffixDot(r.Question[1].Name)
         IN  IF shouldUseRequestMatcher(qname)
             THEN routeMatchedRequest(qname, RouteResult)
             ELSE routePassthrough(RouteResult)

\* Router.Route, up to the first resolver call
Route(r) ==
    IF Len(r.Question) = 0
    THEN RouteFail("no question in request")
    ELSE LET qname == TrimSuffixDot(r.Question[1].Name)
         IN  IF shouldUseRequestMatcher(qname)
             THEN routeMatchedRequest(qname, RouteResult)
             ELSE routePassthrough(RouteResult)

\* the error a failed resolver call is wrapped in
ResolverFailed(slot) ==
    CASE slot = "explicitResolver" -> "explicit resolver failed"
      [] slot = "passthroughResolver" -> "passthrough resolver failed"
      [] slot = "noCnameResponseResolver" -> "no-cname-response resolver failed"
      [] slot = "noCnameMatchResolver" -> "no-cname-match resolver failed"

\* the error path changed to retry a failed explicit call against the
\* passthrough slot
RouteResumeErr_Fallback(p) ==
    IF p.slot = "explicitResolver" /\ router.passthroughResolver # Nil
    THEN RouteCall("passthroughResolver", "finish", p.result)
    ELSE RouteFail(ResolverFailed(p.slot))

\* Route resumed when the pending resolver call returns an error
RouteResumeErr(p) == RouteFail(ResolverFailed(p.slot))

\* the return changed to name the explicit resolver whenever the request
\* matched and there is one
RouteResume_NamesExplicit(p, resp) ==
    IF p.cont = "processExplicitResponse"
    THEN processExplicitResponse(resp, p.result)
    ELSE RouteOk([p.result EXCEPT
                     !.Response = resp,
                     !.ResolverUsed =
                         IF p.result.RequestMatched /\ router.explicitResolver # Nil
                         THEN router.explicitResolver
                         ELSE SlotResolver(p.slot)])

\* Route resumed when the pending resolver call returns a reply
RouteResume(p, resp) ==
    IF p.cont = "processExplicitResponse"
    THEN processExplicitResponse(resp, p.result)
    ELSE RouteOk([p.result EXCEPT !.Response = resp,
                                  !.ResolverUsed = SlotResolver(p.slot)])

(***************************************************************************)
(* github.com/miekg/dns as the transports use it                           *)
(***************************************************************************)
\* Msg.SetReply on a zero Msg: the ID and the RD bit are copied, QR is set,
\* and the question section gets the request's first question only
SetReply(request) ==
    [Id |-> request.Id, Response |-> TRUE,
     RecursionDesired |-> request.RecursionDesired,
     Rcode |-> RcodeSuccess,
     Question |-> IF Len(request.Question) > 0
                  THEN <<request.Question[1]>> ELSE <<>>,
     Answer |-> <<>>, Ns |-> <<>>, Extra |-> <<>>]

\* Msg.SetRcode on a zero Msg
SetRcode(request, rcode) == [SetReply(request) EXCEPT !.Rcode = rcode]

\* dns.IsFqdn and dns.Fqdn
IsFqdn(s) == Len(s) > 0 /\ s[Len(s)] = "."
Fqdn(s) == IF IsFqdn(s) THEN s ELSE Append(s, ".")

\* Msg.Pack returns an error for an RCODE that does not fit the header and
\* for a domain name that is not fully qualified
PackOk(m) ==
    /\ m.Rcode \in 0..15
    /\ \A i \in 1..Len(m.Question) : IsFqdn(m.Question[i].Name)
    /\ \A i \in 1..Len(m.Answer) :
          m.Answer[i].Rrtype = "CNAME" => IsFqdn(m.Answer[i].Target)

\* Msg.Pack: the wire form, a 16-bit ID, the header bits, the section
\* counts and the sections
Pack(m) ==
    [id |-> m.Id % 65536,
     bits |-> [qr |-> m.Response, rd |-> m.RecursionDesired,
               rcode |-> m.Rcode % 16],
     qdcount |-> Len(m.Question), ancount |-> Len(m.Answer),
     nscount |-> Len(m.Ns), arcount |-> Len(m.Extra),
     body |-> m.Question \o m.Answer \o m.Ns \o m.Extra]

\* bytes that are not a DNS message
Garbage == [id |-> -1]

\* Msg.Unpack succeeds on a well-formed packet
UnpackOk(b) == b # Garbage

\* Msg.Unpack: the header, then the four sections by their counts
Unpack(b) ==
    [Id |-> b.id, Response |-> b.bits.qr, RecursionDesired |-> b.bits.rd,
     Rcode |-> b.bits.rcode,
     Question |-> SubSeq(b.body, 1, b.qdcount),
     Answer |-> SubSeq(b.body, b.qdcount + 1, b.qdcount + b.ancount),
     Ns |-> SubSeq(b.body, b.qdcount + b.ancount + 1,
                   b.qdcount + b.ancount + b.nscount),
     Extra |-> SubSeq(b.body, b.qdcount + b.ancount + b.nscount + 1,
                      b.qdcount + b.ancount + b.nscount + b.arcount)]

\* the packets a gRPC client can send
Packets == { Pack(r) : r \in Requests } \cup { Garbage }

(***************************************************************************)
(* The transports                                                          *)
(***************************************************************************)
\* handleRequest changed to send the upstream reply with the ID it came with
handleRequestReply_KeepUpstreamID(r, rs) ==
    IF rs.kind = "err"
    THEN SetRcode(r, RcodeServerFailure)
    ELSE rs.result.Response

\* dns Server.handleRequest from the return of Route on: the message
\* handed to WriteMsg
handleRequestReply(r, rs) ==
    IF rs.kind = "err"
    THEN SetRcode(r, RcodeServerFailure)
    ELSE [rs.result.Response EXCEPT !.Id = r.Id]

\* Query changed to build its error reply with SetReply, leaving the RCODE
\* at NOERROR
QueryReply_SetReply(msg, rs) ==
    IF rs.kind = "err"
    THEN Pack(SetReply(msg))
    ELSE IF rs.result.Response # NoMsg
         THEN Pack([rs.result.Response EXCEPT !.Id = msg.Id])
         ELSE Pack(SetRcode(msg, RcodeServerFailure))

\* Query changed to answer with a fresh reply to the request that takes
\* the ANSWER section of the upstream reply
QueryReply_AnswerOnly(msg, rs) ==
    IF rs.kind = "err"
    THEN Pack(SetRcode(msg, RcodeServerFailure))
    ELSE IF rs.result.Response # NoMsg
         THEN Pack([SetReply(msg) EXCEPT !.Answer = rs.result.Response.Answer])
         ELSE Pack(SetRcode(msg, RcodeServerFailure))

\* Query changed to return the upstream reply with the ID it came with
QueryReply_KeepUpstreamID(msg, rs) ==
    IF rs.kind = "err"
    THEN Pack(SetRcode(msg, RcodeServerFailure))
    ELSE IF rs.result.Response # NoMsg
         THEN Pack(rs.result.Response)
         ELSE Pack(SetRcode(msg, RcodeServerFailure))

\* grpc Server.Query from the return of Route on: the packet returned,
\* SERVFAIL on a routing error or a nil response
QueryReply(msg, rs) ==
    IF rs.kind = "err"
    THEN Pack(SetRcode(msg, RcodeServerFailure))
    ELSE IF rs.result.Response # NoMsg
         THEN Pack([rs.result.Response EXCEPT !.Id = msg.Id])
         ELSE Pack(SetRcode(msg, RcodeServerFailure))

\* Query changed to drop the error of Pack, as it does for its SERVFAIL
QueryErr_Ignored(msg, rs) == Nil

\* grpc Server.Query from the return of Route on: the RPC error, returned
\* when the routed reply does not pack
QueryErr(msg, rs) ==
    IF /\ rs.kind = "ok"
       /\ rs.result.Response # NoMsg
       /\ ~PackOk([rs.result.Response EXCEPT !.Id = msg.Id])
    THEN "failed to pack DNS response"
    ELSE Nil

\* dns.RcodeToString
RcodeToString(rcode) ==
    CASE rcode = RcodeSuccess -> "NOERROR"
      [] rcode = RcodeServerFailure -> "SERVFAIL"
      [] rcode = RcodeNameError -> "NXDOMAIN"
      [] OTHER -> ""

\* Resolve changed to swallow a routing failure: no RPC error
ResolveErr_Swallowed(rs) == Nil

\* grpc Server.Resolve from the return of Route on: the RPC error
ResolveErr(rs) ==
    IF rs.kind = "err" THEN "resolution failed" ELSE Nil

\* grpc Server.Resolve from the return of Route on: the ResolveResponse,
\* nil with an RPC error
ResolveResponse(rs) ==
    IF rs.kind = "err" THEN NoMsg
    ELSE [ResolverUsed |-> rs.result.ResolverUsed,
          RequestMatched |-> rs.result.RequestMatched,
          CnameMatched |-> rs.result.CNAMEMatched,
          MatchedPattern |-> rs.result.MatchedPattern,
          CnamePattern |-> rs.result.CNAMEPattern,
          Rcode |-> RcodeToString(rs.result.Response.Rcode),
          Records |-> [i \in 1..Len(rs.result.Response.Answer) |->
                          [Type |-> rs.result.Response.Answer[i].Rrtype,
                           Value |-> rs.result.Response.Answer[i].Target]]]

\* what reaches the client when Route has returned: the DNS handler writes
\* its message unless WriteMsg fails to pack it, Query returns its packet
\* unless it returns an RPC error, Resolve returns no DNS message
Delivered(tr, r, rs) ==
    CASE tr = "dns" ->
           IF PackOk(handleRequestReply(r, rs))
           THEN <<handleRequestReply(r, rs)>> ELSE <<>>
      [] tr = "grpc" ->
           IF QueryErr(r, rs) = Nil THEN <<QueryReply(r, rs)>> ELSE <<>>
      [] tr = "resolve" -> <<>>

\* the query task runs on from a state of its Route call: it blocks in the
\* next resolver call (logged after the calls made so far), or Route
\* returns and the transport replies
Continue(tr, r, log, rs) ==
    IF rs.kind = "call"
    THEN /\ pc' = "upstream"
         /\ pending' = rs
         /\ calls' = Append(log, [slot |-> rs.slot,
                                  name |-> SlotResolver(rs.slot),
                                  req |-> r, resp |-> NoMsg,
                                  state |-> "pending"])
         /\ UNCHANGED <<result, routeErr, sent, rpcErr, rpcResp>>
    ELSE /\ pc' = "done"
         /\ pending' = NoCall
         /\ calls' = log
         /\ result' = rs.result
         /\ routeErr' = rs.err
         /\ sent' = sent \o Delivered(tr, r, rs)
         /\ rpcErr' = CASE tr = "grpc" -> QueryErr(r, rs)
                        [] tr = "resolve" -> ResolveErr(rs)
                        [] tr = "dns" -> Nil
         /\ rpcResp' = IF tr = "resolve" THEN ResolveResponse(rs) ELSE NoMsg

\* no successful update since startup
NotUpdated == [request |-> <<"startup">>, cname |-> <<"startup">>]

\* a free RWMutex
Unlocked == [writer |-> FALSE, readers |-> 0]

\* a nil *Metrics
NoMetrics ==
    [present |-> FALSE, activeConnections |-> 0,
     errors |-> [routing |-> 0, write |-> 0],
     requestsTotal |-> 0,
     responseCodes |-> [c \in {"NOERROR", "SERVFAIL"} |-> 0],
     resolverUsed |-> [n \in {"explicit", "system"} |-> 0]]

\* no query in flight
NoQuery ==
    /\ pc = "idle"
    /\ transport = "none"
    /\ req = NoMsg
    /\ pending = NoCall
    /\ calls = <<>>
    /\ result = NoResult
    /\ routeErr = Nil
    /\ sent = <<>>
    /\ rpcErr = Nil
    /\ rpcResp = NoMsg
    /\ ctxDone = FALSE

\* no goroutine besides the one of the query in flight, and no metrics
NoGoroutines ==
    /\ mu = Unlocked
    /\ readers = <<>>
    /\ writer = <<>>
    /\ inForce = NotUpdated
    /\ tasks = <<>>
    /\ handlers = <<>>
    /\ metrics = NoMetrics

\* dns Server.handleRequest: a message arrives on UDP or TCP
handleRequest(r) ==
    /\ pc = "idle"
    /\ router # NilRouter
    /\ transport' = "dns"
    /\ req' = r
    /\ Continue("dns", r, <<>>, Route(r))
    /\ UNCHANGED <<router, requestMatcher, cnameMatcher, ctxDone, concVars>>

\* grpc Server.Query: the packet does not decode, an RPC error
QueryUnpackError(b) ==
    /\ pc = "idle"
    /\ ~UnpackOk(b)
    /\ transport' = "grpc"
    /\ pc' = "done"
    /\ rpcErr' = "failed to unpack DNS message"
    /\ UNCHANGED <<router, requestMatcher, cnameMatcher, req, pending, calls,
                   result, routeErr, sent, rpcResp, ctxDone, concVars>>

\* grpc Server.Query: the packet decodes; routed when there is a router and
\* a question, answered SERVFAIL otherwise
Query(b) ==
    /\ pc = "idle"
    /\ UnpackOk(b)
    /\ LET msg == Unpack(b)
       IN  /\ transport' = "grpc"
           /\ req' = msg
           /\ IF router # NilRouter /\ Len(msg.Question) > 0
              THEN Continue("grpc", msg, <<>>, Route(msg))
              ELSE /\ pc' = "done"
                   /\ sent' = Append(sent, Pack(SetRcode(msg, RcodeServerFailure)))
                   /\ UNCHANGED <<pending, calls, result, routeErr, rpcErr,
                                  rpcResp>>
    /\ UNCHANGED <<router, requestMatcher, cnameMatcher, ctxDone, concVars>>

\* strings.ToUpper on the type names used here
ToUpper(t) == IF t = "a" THEN "A" ELSE t

\* dns.StringToType, restricted to the types of the model
StringToTypeOk(t) == t \in {"A"}

\* Msg.SetQuestion on a zero Msg: a fresh ID, RD set, one question
SetQuestion(id, name, qtype) ==
    [Id |-> id, Response |-> FALSE, RecursionDesired |-> TRUE,
     Rcode |-> RcodeSuccess, Question |-> <<[Name |-> name, Qtype |-> qtype]>>,
     Answer |-> <<>>, Ns |-> <<>>, Extra |-> <<>>]

\* grpc Server.Resolve: the name is made fully qualified, an unknown type
\* becomes A, and the one-question message (with the random ID id) is routed
Resolve(rq, id) ==
    /\ pc = "idle"
    /\ router # NilRouter
    /\ LET qtype == IF StringToTypeOk(ToUpper(rq.Type))
                    THEN ToUpper(rq.Type) ELSE "A"
           dnsReq == SetQuestion(id, Fqdn(rq.Name), qtype)
       IN  /\ transport' = "resolve"
           /\ req' = dnsReq
           /\ Continue("resolve", dnsReq, <<>>, Route(dnsReq))
    /\ UNCHANGED <<router, requestMatcher, cnameMatcher, ctxDone, concVars>>

\* the log of resolver calls with the pending one completed
Completed(resp, state) ==
    [calls EXCEPT ![Len(calls)].resp = resp, ![Len(calls)].state = state]

\* ExchangeContext changed to ignore the deadline of its context
ExchangeContextReads_NoDeadline(done) == TRUE

\* Client.ExchangeContext: the reply is read only before the deadline of
\* the context passes
ExchangeContextReads(done) == ~done

\* Resolver.Resolve returns a reply to the blocked query task
UpstreamReply(resp) ==
    /\ pc = "upstream"
    /\ ExchangeContextReads(ctxDone)
    /\ Continue(transport, req, Completed(resp, "ok"), RouteResume(pending, resp))
    /\ UNCHANGED <<router, requestMatcher, cnameMatcher, transport, req, ctxDone, concVars>>

\* Resolver.Resolve returns an error (unreachable, timeout, cancelled
\* context) to the blocked query task
UpstreamError ==
    /\ pc = "upstream"
    /\ Continue(transport, req, Completed(NoMsg, "failed"), RouteResumeErr(pending))
    /\ UNCHANGED <<router, requestMatcher, cnameMatcher, transport, req, ctxDone, concVars>>

\* the query task ends; the server is ready for the next message
Finish ==
    /\ pc = "done"
    /\ pc' = "idle"
    /\ transport' = "none"
    /\ req' = NoMsg
    /\ pending' = NoCall
    /\ calls' = <<>>
    /\ result' = NoResult
    /\ routeErr' = Nil
    /\ sent' = <<>>
    /\ rpcErr' = Nil
    /\ rpcResp' = NoMsg
    /\ ctxDone' = FALSE
    /\ UNCHANGED <<router, requestMatcher, cnameMatcher, concVars>>

Init ==
    /\ router \in { NewRouter(cfg) : cfg \in RouterConfigs } \cup { NilRouter }
    /\ requestMatcher \in
         { NewRegexMatcher(l) : l \in RequestPatternLists } \cup { NoMatcher }
    /\ cnameMatcher \in
         { NewRegexMatcher(l) : l \in CNAMEPatternLists } \cup { NoMatcher }
    /\ NoQuery
    /\ NoGoroutines

Next ==
    \/ \E r \in Requests : handleRequest(r)
    \/ \E b \in Packets : QueryUnpackError(b)
    \/ \E b \in Packets : Query(b)
    \/ \E resp \in UpstreamReplies : UpstreamReply(resp)
    \/ UpstreamError
    \/ Finish

Spec == Init /\ [][Next]_vars

(***************************************************************************)
(* The RPC surface: Resolve and Query beside the DNS handler, with         *)
(* resolvers that may also return a reply a resolver built by hand.        *)
(***************************************************************************)
\* what a Resolve client asks for: a name with or without the final dot, a
\* type in lower case or an unknown one
ResolveRequests == [Name : { <<"w", "e">>, <<"x", ".">> }, Type : {"a", "?"}]

\* the one-question and zero-question requests that ask for recursion
RpcRequests ==
    { r \in Requests : r.RecursionDesired /\ Len(r.Question) <= 1 }

\* the packets of those requests, and bytes that do not decode
RpcPackets == { Pack(r) : r \in RpcRequests } \cup { Garbage }

\* replies of a Resolver that builds its messages itself: the CNAME target
\* is not fully qualified, which Pack refuses
HandBuiltReplies ==
    { [Id |-> i, Response |-> TRUE, RecursionDesired |-> TRUE,
       Rcode |-> RcodeSuccess, Question |-> <<>>,
       Answer |-> <<RR_CNAME(<<"c", "d">>)>>, Ns |-> <<>>, Extra |-> <<>>]
      : i \in Ids }

NextRpc ==
    \/ \E r \in RpcRequests : handleRequest(r)
    \/ \E b \in RpcPackets : QueryUnpackError(b)
    \/ \E b \in RpcPackets : Query(b)
    \/ \E rq \in ResolveRequests, id \in Ids : Resolve(rq, id)
    \/ \E resp \in UpstreamReplies \cup HandBuiltReplies : UpstreamReply(resp)
    \/ UpstreamError
    \/ Finish

SpecRpc == Init /\ [][NextRpc]_vars

(***************************************************************************)
(* One RegexMatcher under its RWMutex: reader goroutines in Match,         *)
(* MatchingPattern and Patterns, and one goroutine in UpdatePatterns, by   *)
(* lock operation and by read or write of a field.                         *)
(***************************************************************************)
\* reader goroutines are 1..MaxReaders
MaxReaders == 2
Readers == 1..MaxReaders

\* the pattern lists an update is called with: one valid pattern, blanks
\* and an empty entry around valid patterns, an invalid pattern after a
\* valid one, an invalid pattern first, and nothing but a blank
UpdateInputs ==
    { << <<"x">> >>,
      << <<" ", "w", "e", " ">>, <<>>, <<"e">> >>,
      << <<"x">>, <<"[", "x">> >>,
      << <<"[">>, <<"x">> >>,
      << <<" ">> >> }

\* a goroutine outside the matcher
IdleReader ==
    [pc |-> "idle", op |-> "", domain |-> <<>>, patterns |-> <<>>,
     raw |-> <<>>, hit |-> 0, n |-> 0, ret |-> <<>>]
IdleWriter ==
    [pc |-> "idle", input |-> <<>>, old |-> <<>>, new |-> <<>>, err |-> Nil]

\* RWMutex.Lock changed to wait for the writer only, not for the readers
LockFree_IgnoresReaders(l) == ~l.writer

\* RWMutex: Lock returns when no reader and no writer holds the mutex,
\* RLock when no writer holds it
LockFree(l) == ~l.writer /\ l.readers = 0
RLockFree(l) == ~l.writer

\* the variables no goroutine on the matcher's mutex touches
outsideLock ==
    <<router, cnameMatcher, pc, transport, req, pending, calls, result,
      routeErr, sent, rpcErr, rpcResp, ctxDone, raceVars, gaugeVars>>

\* a goroutine calls Match, MatchingPattern or Patterns
ReaderCall(r, op, domain) ==
    /\ readers[r].pc = "idle"
    /\ readers' = [readers EXCEPT ![r] =
                      [IdleReader EXCEPT !.pc = "rlock", !.op = op,
                                         !.domain = domain]]
    /\ UNCHANGED <<mu, writer, requestMatcher, outsideLock>>

\* m.mu.RLock()
RLock(r) ==
    /\ readers[r].pc = "rlock"
    /\ RLockFree(mu)
    /\ mu' = [mu EXCEPT !.readers = @ + 1]
    /\ readers' = [readers EXCEPT ![r].pc =
                      IF readers[r].op = "Patterns" THEN "len" ELSE "range"]
    /\ UNCHANGED <<writer, requestMatcher, outsideLock>>

\* Match and MatchingPattern: `range m.patterns` reads the field once and
\* the loop runs over what was read; Match returns, and MatchingPattern
\* returns "" without a hit
ReadPatterns(r) ==
    /\ readers[r].pc = "range"
    /\ LET t == readers[r]
           seen == requestMatcher.patterns
           hit == FirstHit(seen, t.domain)
       IN  readers' = [readers EXCEPT ![r] =
               [t EXCEPT !.patterns = seen,
                         !.hit = hit,
                         !.ret = IF t.op = "Match" THEN hit # 0 ELSE <<>>,
                         !.pc = IF t.op = "Match" \/ hit = 0
                                THEN "runlock" ELSE "index"]]
    /\ UNCHANGED <<mu, writer, requestMatcher, outsideLock>>

\* MatchingPattern: `return m.raw[i]` reads the other field; an index
\* beyond its length panics
ReadRaw(r) ==
    /\ readers[r].pc = "index"
    /\ LET t == readers[r]
           seen == requestMatcher.raw
       IN  readers' = [readers EXCEPT ![r] =
               [t EXCEPT !.raw = seen,
                         !.ret = IF t.hit <= Len(seen) THEN seen[t.hit]
                                 ELSE <<"panic">>,
                         !.pc = "runlock"]]
    /\ UNCHANGED <<mu, writer, requestMatcher, outsideLock>>

\* Patterns: `make([]string, len(m.raw))`
ReadLen(r) ==
    /\ readers[r].pc = "len"
    /\ readers' = [readers EXCEPT ![r].n = Len(requestMatcher.raw),
                                  ![r].pc = "copy"]
    /\ UNCHANGED <<mu, writer, requestMatcher, outsideLock>>

\* Patterns: `copy(result, m.raw)` copies as many entries as both hold
CopyRaw(r) ==
    /\ readers[r].pc = "copy"
    /\ LET t == readers[r]
           seen == requestMatcher.raw
       IN  readers' = [readers EXCEPT ![r] =
               [t EXCEPT !.raw = seen,
                         !.ret = [i \in 1..t.n |->
                                    IF i <= Len(seen) THEN seen[i] ELSE <<>>],
                         !.pc = "runlock"]]
    /\ UNCHANGED <<mu, writer, requestMatcher, outsideLock>>

\* the deferred m.mu.RUnlock(), and the return
RUnlock(r) ==
    /\ readers[r].pc = "runlock"
    /\ mu' = [mu EXCEPT !.readers = @ - 1]
    /\ readers' = [readers EXCEPT ![r].pc = "returned"]
    /\ UNCHANGED <<writer, requestMatcher, outsideLock>>

\* the caller has used the result
ReaderDone(r) ==
    /\ readers[r].pc = "returned"
    /\ readers' = [readers EXCEPT ![r] = IdleReader]
    /\ UNCHANGED <<mu, writer, requestMatcher, outsideLock>>

\* a goroutine calls UpdatePatterns: the compile loop runs on scratch
\* lists, and an invalid pattern returns before the lock is taken
WriterCall(patterns) ==
    /\ writer.pc = "idle"
    /\ LET u == UpdatePatterns(patterns)
       IN  writer' = [pc |-> IF u.install THEN "lock" ELSE "returned",
                      input |-> patterns, old |-> requestMatcher.raw,
                      new |-> u.new, err |-> u.err]
    /\ UNCHANGED <<mu, readers, requestMatcher, outsideLock>>

\* m.mu.Lock()
Lock ==
    /\ writer.pc = "lock"
    /\ LockFree(mu)
    /\ mu' = [mu EXCEPT !.writer = TRUE]
    /\ writer' = [writer EXCEPT !.pc = "patterns"]
    /\ UNCHANGED <<readers, requestMatcher, outsideLock>>

\* m.patterns = newPatterns
WritePatterns ==
    /\ writer.pc = "patterns"
    /\ requestMatcher' = [requestMatcher EXCEPT !.patterns = writer.new]
    /\ writer' = [writer EXCEPT !.pc = "raw"]
    /\ UNCHANGED <<mu, readers, outsideLock>>

\* m.raw = newRaw
WriteRaw ==
    /\ writer.pc = "raw"
    /\ requestMatcher' = [requestMatcher EXCEPT !.raw = writer.new]
    /\ writer' = [writer EXCEPT !.pc = "unlock"]
    /\ UNCHANGED <<mu, readers, outsideLock>>

\* m.mu.Unlock(), and the return
Unlock ==
    /\ writer.pc = "unlock"
    /\ mu' = [mu EXCEPT !.writer = FALSE]
    /\ writer' = [writer EXCEPT !.pc = "returned"]
    /\ UNCHANGED <<readers, requestMatcher, outsideLock>>

InitLock ==
    /\ router = NilRouter
    /\ requestMatcher \in { NewRegexMatcher(l) : l \in RequestPatternLists }
    /\ cnameMatcher = NoMatcher
    /\ NoQuery
    /\ mu = Unlocked
    /\ readers = [r \in Readers |-> IdleReader]
    /\ writer = IdleWriter
    /\ inForce = NotUpdated
    /\ tasks = <<>>
    /\ handlers = <<>>
    /\ metrics = NoMetrics

NextLock ==
    \/ \E r \in Readers, op \in {"Match", "MatchingPattern", "Patterns"},
          domain \in QNames : ReaderCall(r, op, domain)
    \/ \E r \in Readers : RLock(r)
    \/ \E r \in Readers : ReadPatterns(r)
    \/ \E r \in Readers : ReadRaw(r)
    \/ \E r \in Readers : ReadLen(r)
    \/ \E r \in Readers : CopyRaw(r)
    \/ \E r \in Readers : RUnlock(r)
    \/ \E r \in Readers : ReaderDone(r)
    \/ \E patterns \in UpdateInputs : WriterCall(patterns)
    \/ Lock
    \/ WritePatterns
    \/ WriteRaw
    \/ Unlock

SpecLock == InitLock /\ [][NextLock]_vars

(***************************************************************************)
(* Concurrent goroutines on the two matchers: one Route call, the update   *)
(* RPCs and GetConfig.  Each matcher method is one step, which its mutex   *)
(* justifies, and a call is one step with its first matcher method, as it  *)
(* touches nothing shared before; the steps of different goroutines        *)
(* interleave freely: the gRPC server runs every RPC in a goroutine of its *)
(* own and takes no lock.                                                  *)
(***************************************************************************)
\* the goroutines in an update RPC are 1..MaxAdmins
MaxAdmins == 2
Admins == 1..MaxAdmins

\* the pattern lists of the racing update RPCs
RaceInputs ==
    { << <<"x">> >>,
      << <<" ", "w", "e", " ">>, <<>>, <<"e">> >>,
      << <<"x">>, <<"[", "x">> >> }

\* the CNAME targets of the explicit resolver's replies
RaceTargets == { ExtractCNAME([Answer |-> a]) : a \in UpstreamAnswers }

\* goroutines that have not been started
IdleRoute ==
    [pc |-> "idle", qname |-> <<>>, cnames |-> <<>>, cname |-> <<>>,
     result |-> RouteResult, after |-> {},
     from |-> [request |-> 0, cname |-> 0],
     at |-> [request |-> 0, cname |-> 0],
     used |-> [request |-> <<>>, cname |-> <<>>]]
IdleAdmin ==
    [pc |-> "idle", which |-> "", input |-> <<>>, from |-> 0, installed |-> 0,
     err |-> Nil, rpcErr |-> Nil, resp |-> NoMsg]
IdleConfig ==
    [pc |-> "idle", after |-> {}, at |-> [request |-> 0, cname |-> 0],
     resp |-> [RequestPatterns |-> <<>>, CnamePatterns |-> <<>>]]

\* the matcher an update RPC works on, and per matcher the number of the
\* version of its list that is live
MatcherOf(which) == IF which = "request" THEN requestMatcher ELSE cnameMatcher
Live == [request |-> Len(inForce.request), cname |-> Len(inForce.cname)]

\* the update RPCs that have returned
Returned == { a \in Admins : tasks.admin[a].pc = "returned" }

\* RegexMatcher.Patterns
Patterns(m) == m.raw

\* the assignments of UpdatePatterns changed to leave m.patterns alone
Install_RawOnly(m, u) ==
    IF u.install THEN [m EXCEPT !.raw = u.new] ELSE m

\* RegexMatcher.UpdatePatterns from Lock to Unlock
Install(m, u) ==
    IF u.install THEN [m EXCEPT !.patterns = u.new, !.raw = u.new] ELSE m

\* the response of an update RPC
UpdatePatternsResponse(err, patterns) ==
    [Success |-> err = Nil, Error |-> IF err = Nil THEN "" ELSE err,
     Patterns |-> patterns]

\* an update RPC up to the return of matcher.UpdatePatterns(req.Patterns);
\* without the matcher the RPC returns at once
UpdateCalled(which, patterns) ==
    IF MatcherOf(which).present
    THEN [IdleAdmin EXCEPT
             !.pc = "patterns", !.which = which, !.input = patterns,
             !.from = Live[which],
             !.installed = IF UpdatePatterns(patterns).install
                           THEN Live[which] + 1 ELSE 0,
             !.err = UpdatePatterns(patterns).err]
    ELSE [IdleAdmin EXCEPT
             !.pc = "returned", !.which = which, !.input = patterns,
             !.resp = UpdatePatternsResponse(
                          IF which = "request"
                          THEN "request matcher not configured"
                          ELSE "CNAME matcher not configured", <<>>)]

\* the lists the effective updates of a matcher asked for, in the order of
\* taking effect, after a call with these patterns
Asked(which, patterns) ==
    IF MatcherOf(which).present /\ FirstInvalid(patterns) = 0
    THEN Append(inForce[which], Trimmed(patterns, Len(patterns)))
    ELSE inForce[which]

\* the variables the racing goroutines do not touch
outsideRace ==
    <<router, pc, transport, req, pending, calls, result, routeErr, sent,
      rpcErr, rpcResp, ctxDone, lockVars, gaugeVars>>

\* Router.Route is called with a question for qname, up to the return of
\* shouldUseRequestMatcher: requestMatcher.Match(qname); without a matcher
\* or a match the query goes to the passthrough resolver
RouteStart(qname) ==
    /\ tasks.route.pc = "idle"
    /\ LET name == TrimSuffixDot(qname)
           hit == requestMatcher.present /\ Match(requestMatcher, name)
       IN  tasks' = [tasks EXCEPT !.route =
               [IdleRoute EXCEPT !.pc = IF hit THEN "pattern" ELSE "done",
                                 !.qname = name,
                                 !.after = Returned,
                                 !.from = Live,
                                 !.result.RequestMatched = hit,
                                 !.at.request = Live.request,
                                 !.used.request = requestMatcher.patterns]]
    /\ UNCHANGED <<requestMatcher, cnameMatcher, inForce, outsideRace>>

\* routeMatchedRequest: requestMatcher.MatchingPattern(qname), a second
\* call of the matcher; then the explicit resolver is asked
RouteRequestPattern ==
    /\ tasks.route.pc = "pattern"
    /\ tasks' = [tasks EXCEPT
                    !.route.result.MatchedPattern =
                        MatchingPattern(requestMatcher, tasks.route.qname),
                    !.route.pc = IF router.explicitResolver = Nil
                                 THEN "done" ELSE "explicit"]
    /\ UNCHANGED <<requestMatcher, cnameMatcher, inForce, outsideRace>>

\* the explicit resolver replies; processExplicitResponse goes on to the
\* CNAME matcher when there is one and the reply has CNAME records
RouteExplicitReply(cnames) ==
    /\ tasks.route.pc = "explicit"
    /\ tasks' = [tasks EXCEPT
                    !.route.cnames = cnames,
                    !.route.pc = IF cnames = <<>> \/ ~cnameMatcher.present
                                 THEN "done" ELSE "cmatch"]
    /\ UNCHANGED <<requestMatcher, cnameMatcher, inForce, outsideRace>>

\* processCNAMEMatch: cnameMatcher.Match on the next CNAME target
RouteCnameMatch ==
    /\ tasks.route.pc = "cmatch"
    /\ LET t == tasks.route
           cname == TrimSuffixDot(Head(t.cnames))
           hit == Match(cnameMatcher, cname)
       IN  tasks' = [tasks EXCEPT !.route =
               [t EXCEPT !.pc = IF hit THEN "cpattern"
                                ELSE IF Len(t.cnames) = 1 THEN "done"
                                ELSE "cmatch",
                         !.cnames = Tail(t.cnames),
                         !.cname = cname,
                         !.result.CNAMEMatched = hit,
                         !.at.cname = Live.cname,
                         !.used.cname = cnameMatcher.patterns]]
    /\ UNCHANGED <<requestMatcher, cnameMatcher, inForce, outsideRace>>

\* handleMatchedCNAME: cnameMatcher.MatchingPattern(cname), a second call
RouteCnamePattern ==
    /\ tasks.route.pc = "cpattern"
    /\ tasks' = [tasks EXCEPT
                    !.route.result.CNAMEPattern =
                        MatchingPattern(cnameMatcher, tasks.route.cname),
                    !.route.pc = "done"]
    /\ UNCHANGED <<requestMatcher, cnameMatcher, inForce, outsideRace>>

\* Server.UpdateRequestPatterns up to the return of UpdatePatterns
UpdateRequestPatterns(a, patterns) ==
    /\ tasks.admin[a].pc = "idle"
    /\ tasks' = [tasks EXCEPT !.admin[a] = UpdateCalled("request", patterns)]
    /\ requestMatcher' = Install(requestMatcher, UpdatePatterns(patterns))
    /\ inForce' = [inForce EXCEPT !.request = Asked("request", patterns)]
    /\ UNCHANGED <<cnameMatcher, outsideRace>>

\* Server.UpdateCNAMEPatterns up to the return of UpdatePatterns
UpdateCNAMEPatterns(a, patterns) ==
    /\ tasks.admin[a].pc = "idle"
    /\ tasks' = [tasks EXCEPT !.admin[a] = UpdateCalled("cname", patterns)]
    /\ cnameMatcher' = Install(cnameMatcher, UpdatePatterns(patterns))
    /\ inForce' = [inForce EXCEPT !.cname = Asked("cname", patterns)]
    /\ UNCHANGED <<requestMatcher, outsideRace>>

\* the RPC's call of matcher.Patterns() for the response, and the return
UpdateReturn(a) ==
    /\ tasks.admin[a].pc = "patterns"
    /\ LET t == tasks.admin[a]
       IN  tasks' = [tasks EXCEPT !.admin[a] =
               [t EXCEPT !.pc = "returned",
                         !.resp = UpdatePatternsResponse(
                                      t.err, Patterns(MatcherOf(t.which)))]]
    /\ UNCHANGED <<requestMatcher, cnameMatcher, inForce, outsideRace>>

\* Server.GetConfig up to the return of s.requestMatcher.Patterns()
GetConfig ==
    /\ tasks.config.pc = "idle"
    /\ tasks' = [tasks EXCEPT
                    !.config.pc = "cname",
                    !.config.after = Returned,
                    !.config.at.request = Live.request,
                    !.config.resp.RequestPatterns =
                        IF requestMatcher.present
                        THEN Patterns(requestMatcher) ELSE <<>>]
    /\ UNCHANGED <<requestMatcher, cnameMatcher, inForce, outsideRace>>

\* GetConfig: s.cnameMatcher.Patterns(), and the return
GetConfigCnamePatterns ==
    /\ tasks.config.pc = "cname"
    /\ tasks' = [tasks EXCEPT
                    !.config.pc = "returned",
                    !.config.at.cname = Live.cname,
                    !.config.resp.CnamePatterns =
                        IF cnameMatcher.present
                        THEN Patterns(cnameMatcher) ELSE <<>>]
    /\ UNCHANGED <<requestMatcher, cnameMatcher, inForce, outsideRace>>

\* NewApp hands the same two matchers to the router and to the gRPC server;
\* a server built by hand may lack either
InitRace ==
    /\ router = NewRouter([ExplicitResolver |-> "explicit",
                           PassthroughResolver |-> "passthrough",
                           NoCnameResponseResolver |-> "no-cname-response",
                           NoCnameMatchResolver |-> "no-cname-match",
                           SystemResolver |-> Nil])
    /\ requestMatcher \in
           { NewRegexMatcher(l) : l \in RequestPatternLists } \cup { NoMatcher }
    /\ cnameMatcher \in
           { NewRegexMatcher(l) : l \in CNAMEPatternLists } \cup { NoMatcher }
    /\ NoQuery
    /\ mu = Unlocked
    /\ readers = <<>>
    /\ writer = <<>>
    /\ inForce = [request |-> <<requestMatcher.raw>>,
                  cname |-> <<cnameMatcher.raw>>]
    /\ tasks = [route |-> IdleRoute, admin |-> [a \in Admins |-> IdleAdmin],
                config |-> IdleConfig]
    /\ handlers = <<>>
    /\ metrics = NoMetrics

NextRace ==
    \/ \E qname \in QNames : RouteStart(qname)
    \/ RouteRequestPattern
    \/ \E cnames \in RaceTargets : RouteExplicitReply(cnames)
    \/ RouteCnameMatch
    \/ RouteCnamePattern
    \/ \E a \in Admins, patterns \in RaceInputs :
          UpdateRequestPatterns(a, patterns)
    \/ \E a \in Admins, patterns \in RaceInputs :
          UpdateCNAMEPatterns(a, patterns)
    \/ \E a \in Admins : UpdateReturn(a)
    \/ GetConfig
    \/ GetConfigCnamePatterns

SpecRace == InitRace /\ [][NextRace]_vars

(***************************************************************************)
(* The DNS handler with the deadline of its context: every query runs      *)
(* under context.WithTimeout, and the resolvers hand that context to       *)
(* Client.ExchangeContext.                                                 *)
(***************************************************************************)
\* the deadline of the query's context passes while a resolver call is
\* pending
DeadlineExceeded ==
    /\ pc = "upstream"
    /\ ~ctxDone
    /\ ctxDone' = TRUE
    /\ UNCHANGED <<router, requestMatcher, cnameMatcher, pc, transport, req,
                   pending, calls, result, routeErr, sent, rpcErr, rpcResp,
                   concVars>>

\* the exchange of a pending call whose deadline has passed times out
ExchangeTimeout == ctxDone /\ UpstreamError

NextDeadline ==
    \/ \E r \in RpcRequests : handleRequest(r)
    \/ \E resp \in UpstreamReplies : UpstreamReply(resp)
    \/ UpstreamError
    \/ DeadlineExceeded
    \/ Finish

\* the timer of the context fires, and a read past its deadline returns;
\* before the deadline an upstream may stay silent
SpecDeadline ==
    /\ Init
    /\ [][NextDeadline]_vars
    /\ WF_vars(DeadlineExceeded)
    /\ WF_vars(ExchangeTimeout)

(***************************************************************************)
(* Concurrent DNS handlers and the active-connections gauge: the server    *)
(* library runs handleRequest in a goroutine per message.                  *)
(***************************************************************************)
\* the handler goroutines are 1..MaxHandlers
MaxHandlers == 3
Handlers == 1..MaxHandlers

\* the requests the server is sent
MaxRequests == 3

\* what the clients have seen of the server: the requests they sent, and
\* the replies whose sending failed
\* what Route returns to a handler when it does not fail, as far as the
\* counters go: the resolver used and the RCODE of the reply
RoutedResults ==
    [ResolverUsed : {"explicit", "system"},
     Rcode : {RcodeSuccess, RcodeServerFailure}]

NoTraffic ==
    [requests |-> 0, writesFailed |-> 0, routeErrors |-> 0,
     routed |-> [res \in RoutedResults |-> 0]]

\* Metrics.RecordError, RecordRequest, RecordResolverUsed, RecordResponseCode
RecordError(m, type) == [m EXCEPT !.errors[type] = @ + 1]
RecordRequest(m) == [m EXCEPT !.requestsTotal = @ + 1]
RecordResolverUsed(m, resolver) == [m EXCEPT !.resolverUsed[resolver] = @ + 1]
RecordResponseCode(m, rcode) == [m EXCEPT !.responseCodes[rcode] = @ + 1]

\* the routing-error path changed to count the resolver the query would
\* have fallen back to
recordRoutingError_CountsResolver(m) ==
    RecordResolverUsed(
        RecordResponseCode(RecordError(m, "routing"), "SERVFAIL"), "system")

\* the counters of the routing-error path
recordRoutingError(m) ==
    RecordResponseCode(RecordError(m, "routing"), "SERVFAIL")

\* the counters of the success path
recordRouted(m, res) ==
    RecordResponseCode(RecordResolverUsed(m, res.ResolverUsed),
                       RcodeToString(res.Rcode))

\* a goroutine outside handleRequest, with the way it left it last
IdleHandler == [pc |-> "idle", path |-> "none", sends |-> 0]

\* ResponseWriter.WriteMsg is called by a handler: one more send of a reply
\* is attempted
WriteMsg(hd) == [hd EXCEPT !.sends = @ + 1]

\* the routing-error path changed to drop the query without a reply
replyServfail_Silent(hd) == hd

\* the routing-error path builds the SERVFAIL and calls w.WriteMsg(resp)
replyServfail(hd) == WriteMsg(hd)

\* Metrics.IncActiveConnections and Metrics.DecActiveConnections
IncActiveConnections(m) == [m EXCEPT !.activeConnections = @ + 1]
DecActiveConnections(m) == [m EXCEPT !.activeConnections = @ - 1]

\* the deferred call changed to be skipped when routing failed
runDeferred_NotAfterRoutingError(m, path) ==
    IF m.present /\ path # "routing error" THEN DecActiveConnections(m) ELSE m

\* the deferred call of handleRequest runs on every return
runDeferred(m, path) ==
    IF m.present THEN DecActiveConnections(m) ELSE m

\* the variables the handlers of this part do not touch
outsideGauge ==
    <<router, requestMatcher, cnameMatcher, pc, transport, req, pending,
      calls, result, routeErr, sent, rpcErr, rpcResp, ctxDone, lockVars,
      inForce>>

\* handleRequest up to the call of Route: with metrics the gauge goes up
\* and its decrement is deferred
HandlerStart(h) ==
    /\ handlers[h].pc = "idle"
    /\ tasks.requests < MaxRequests
    /\ tasks' = [tasks EXCEPT !.requests = @ + 1]
    /\ handlers' = [handlers EXCEPT ![h] =
                       [pc |-> "route", path |-> "none", sends |-> 0]]
    /\ metrics' = IF metrics.present
                  THEN IncActiveConnections(RecordRequest(metrics))
                  ELSE metrics
    /\ UNCHANGED outsideGauge

\* Route returns an error: the routing error is recorded, w.WriteMsg(resp)
\* with the SERVFAIL succeeds or fails, its error is dropped, and the
\* handler returns
HandlerRouteError(h, ok) ==
    /\ handlers[h].pc = "route"
    /\ handlers' = [handlers EXCEPT ![h] =
                       [replyServfail(handlers[h]) EXCEPT
                           !.pc = "return", !.path = "routing error"]]
    /\ metrics' = IF metrics.present THEN recordRoutingError(metrics)
                  ELSE metrics
    /\ tasks' = [tasks EXCEPT !.routeErrors = @ + 1,
                              !.writesFailed = IF ok THEN @ ELSE @ + 1]
    /\ UNCHANGED outsideGauge

\* Route returns a result: the resolver used and the RCODE of the reply
\* are counted
HandlerRouted(h, res) ==
    /\ handlers[h].pc = "route"
    /\ handlers' = [handlers EXCEPT ![h].pc = "write"]
    /\ metrics' = IF metrics.present THEN recordRouted(metrics, res)
                  ELSE metrics
    /\ tasks' = [tasks EXCEPT !.routed[res] = @ + 1]
    /\ UNCHANGED outsideGauge

\* w.WriteMsg(result.Response) succeeds, or fails and the write error is
\* recorded, and the handler returns
HandlerWrite(h, ok) ==
    /\ handlers[h].pc = "write"
    /\ handlers' = [handlers EXCEPT ![h] =
                       [WriteMsg(handlers[h]) EXCEPT
                           !.pc = "return",
                           !.path = IF ok THEN "success" ELSE "write error"]]
    /\ metrics' = IF ~ok /\ metrics.present THEN RecordError(metrics, "write")
                  ELSE metrics
    /\ tasks' = IF ok THEN tasks ELSE [tasks EXCEPT !.writesFailed = @ + 1]
    /\ UNCHANGED outsideGauge

\* the deferred calls run, and the goroutine ends
HandlerExit(h) ==
    /\ handlers[h].pc = "return"
    /\ metrics' = runDeferred(metrics, handlers[h].path)
    /\ handlers' = [handlers EXCEPT ![h].pc = "idle"]
    /\ UNCHANGED <<tasks, outsideGauge>>

\* a server with or without a Metrics object, and no handler running
InitGauge ==
    /\ router = NewRouter([ExplicitResolver |-> "explicit",
                           PassthroughResolver |-> Nil,
                           NoCnameResponseResolver |-> Nil,
                           NoCnameMatchResolver |-> Nil,
                           SystemResolver |-> "system"])
    /\ requestMatcher = NoMatcher
    /\ cnameMatcher = NoMatcher
    /\ NoQuery
    /\ mu = Unlocked
    /\ readers = <<>>
    /\ writer = <<>>
    /\ inForce = NotUpdated
    /\ tasks = NoTraffic
    /\ handlers = [h \in Handlers |-> IdleHandler]
    /\ metrics \in { NoMetrics, [NoMetrics EXCEPT !.present = TRUE] }

NextGauge ==
    \/ \E h \in Handlers : HandlerStart(h)
    \/ \E h \in Handlers, ok \in BOOLEAN : HandlerRouteError(h, ok)
    \/ \E h \in Handlers, res \in RoutedResults : HandlerRouted(h, res)
    \/ \E h \in Handlers, ok \in BOOLEAN : HandlerWrite(h, ok)
    \/ \E h \in Handlers : HandlerExit(h)

SpecGauge == InitGauge /\ [][NextGauge]_vars

\* Route returns to a handler, since each resolver call returns or runs
\* into the deadline of the handler's context; WriteMsg returns; and a
\* handler that returns runs its deferred calls
SpecHandlers ==
    /\ InitGauge
    /\ [][NextGauge]_vars
    /\ \A h \in Handlers :
          /\ WF_vars((\E ok \in BOOLEAN : HandlerRouteError(h, ok))
                     \/ (\E res \in RoutedResults : HandlerRouted(h, res)))
          /\ WF_vars(\E ok \in BOOLEAN : HandlerWrite(h, ok))
          /\ WF_vars(HandlerExit(h))

(***************************************************************************)
(* dns Server.Start: two listener goroutines, the channel errCh, and the   *)
(* starting goroutine that sleeps and then polls the channel once.         *)
(***************************************************************************)
\* the two listeners, and what their errors are wrapped in
Listeners == {"udp", "tcp"}
ListenerFailed(l) == IF l = "udp" THEN "UDP server failed" ELSE "TCP server failed"

\* Start has not been called
NotStarted ==
    [start |-> "idle", ret |-> "none", errCh |-> <<>>, failed |-> {},
     listener |-> [l \in Listeners |-> "unborn"]]

\* the variables Start and its listeners do not touch
outsideStart == <<requestMatcher, cnameMatcher, inForce, outsideRace>>

\* Start is called: errCh is made and the two goroutines are started
Start ==
    /\ tasks.start = "idle"
    /\ tasks' = [NotStarted EXCEPT
                    !.start = "sleep",
                    !.listener = [l \in Listeners |-> "starting"]]
    /\ UNCHANGED outsideStart

\* ListenAndServe binds its socket and serves
ListenerBinds(l) ==
    /\ tasks.listener[l] = "starting"
    /\ tasks' = [tasks EXCEPT !.listener[l] = "serving"]
    /\ UNCHANGED outsideStart

\* ListenAndServe returns an error: the address cannot be bound
ListenerBindFails(l) ==
    /\ tasks.listener[l] = "starting"
    /\ tasks' = [tasks EXCEPT !.listener[l] = "failed"]
    /\ UNCHANGED outsideStart

\* ListenAndServe returns an error after it has served for a while
ListenerServeFails(l) ==
    /\ tasks.listener[l] = "serving"
    /\ tasks' = [tasks EXCEPT !.listener[l] = "broken"]
    /\ UNCHANGED outsideStart

\* errCh <- fmt.Errorf(...): the channel has room for both errors
ListenerSendsError(l) ==
    /\ tasks.listener[l] \in {"failed", "broken"}
    /\ tasks' = [tasks EXCEPT !.listener[l] = "sent",
                              !.errCh = Append(@, ListenerFailed(l))]
    /\ UNCHANGED outsideStart

\* time.Sleep is over, whatever the listener goroutines have done by then;
\* select: an error that is in the channel is returned, otherwise nil
StartSelect ==
    /\ tasks.start = "sleep"
    /\ tasks' = [tasks EXCEPT
                    !.start = "returned",
                    !.failed = { l \in Listeners :
                                   tasks.listener[l] \in {"failed", "sent"} },
                    !.ret = IF tasks.errCh = <<>> THEN Nil
                            ELSE Head(tasks.errCh),
                    !.errCh = IF tasks.errCh = <<>> THEN <<>>
                              ELSE Tail(tasks.errCh)]
    /\ UNCHANGED outsideStart

\* Server.Shutdown after Start has returned: a serving listener stops, and
\* its ListenAndServe returns nil
ListenerShutdown(l) ==
    /\ tasks.start = "returned"
    /\ tasks.listener[l] = "serving"
    /\ tasks' = [tasks EXCEPT !.listener[l] = "stopped"]
    /\ UNCHANGED outsideStart

\* the server is discarded and a new one is built
StartAgain ==
    /\ tasks.start = "returned"
    /\ \A l \in Listeners : tasks.listener[l] \in {"sent", "stopped"}
    /\ tasks' = NotStarted
    /\ UNCHANGED outsideStart

InitStart ==
    /\ router = NilRouter
    /\ requestMatcher = NoMatcher
    /\ cnameMatcher = NoMatcher
    /\ NoQuery
    /\ mu = Unlocked
    /\ readers = <<>>
    /\ writer = <<>>
    /\ inForce = NotUpdated
    /\ tasks = NotStarted
    /\ handlers = <<>>
    /\ metrics = NoMetrics

NextStart ==
    \/ Start
    \/ \E l \in Listeners : ListenerBinds(l)
    \/ \E l \in Listeners : ListenerBindFails(l)
    \/ \E l \in Listeners : ListenerServeFails(l)
    \/ \E l \in Listeners : ListenerSendsError(l)
    \/ StartSelect
    \/ \E l \in Listeners : ListenerShutdown(l)
    \/ StartAgain

SpecStart == InitStart /\ [][NextStart]_vars

(***************************************************************************)
(* grpc Server.Shutdown: the goroutine in GracefulStop, the caller's       *)
(* context, the select of Shutdown, and the RPC handlers in flight.        *)
(***************************************************************************)
\* the RPC handler goroutines are 1..MaxCalls
MaxCalls == 3
RpcCalls == 1..MaxCalls

\* a new gRPC server: Start and Shutdown have not been called
NotServing ==
    [serve |-> "new", shutdown |-> "idle", ret |-> "none", stopped |-> "open",
     ctxDone |-> FALSE, drained |-> FALSE, hardStopped |-> FALSE,
     call |-> [c \in RpcCalls |-> "idle"]]

\* the variables Shutdown and the handlers do not touch
outsideShutdown == <<requestMatcher, cnameMatcher, inForce, outsideRace>>

\* grpc Server.Start: net.Listen fails and Start returns the error, or the
\* goroutine with Serve is started
GrpcStart(listens) ==
    /\ tasks.serve = "new"
    /\ tasks.shutdown = "idle"
    /\ tasks' = [tasks EXCEPT !.serve = IF listens THEN "serving"
                                        ELSE "failed to listen"]
    /\ UNCHANGED outsideShutdown

\* a client's RPC arrives on an open connection: its handler runs
CallStarts(c) ==
    /\ tasks.serve = "serving"
    /\ tasks.shutdown = "idle"
    /\ tasks.call[c] = "idle"
    /\ tasks' = [tasks EXCEPT !.call[c] = "running"]
    /\ UNCHANGED outsideShutdown

\* an RPC handler returns, also one whose connection Stop has closed
CallReturns(c) ==
    /\ tasks.call[c] # "idle"
    /\ tasks' = [tasks EXCEPT !.call[c] = "idle"]
    /\ UNCHANGED outsideShutdown

\* the caller's context is done: its deadline passed or it was cancelled
ContextDone ==
    /\ tasks.shutdown # "returned"
    /\ ~tasks.ctxDone
    /\ tasks' = [tasks EXCEPT !.ctxDone = TRUE]
    /\ UNCHANGED outsideShutdown

\* Shutdown is called: the goroutine with GracefulStop is started, and
\* Shutdown waits in its select
Shutdown ==
    /\ tasks.shutdown = "idle"
    /\ tasks' = [tasks EXCEPT !.shutdown = "select", !.stopped = "draining"]
    /\ UNCHANGED outsideShutdown

\* GracefulStop returns when no RPC is left on a connection, and the
\* goroutine closes the channel `stopped`
GracefulStopReturns ==
    /\ tasks.stopped = "draining"
    /\ \A c \in RpcCalls : tasks.call[c] # "running"
    /\ tasks' = [tasks EXCEPT !.stopped = "closed",
                              !.drained = ~tasks.ctxDone /\ ~tasks.hardStopped]
    /\ UNCHANGED outsideShutdown

\* Serve returns in its goroutine once GracefulStop or Stop has closed the
\* listener
ServeReturns ==
    /\ tasks.serve = "serving"
    /\ tasks.stopped # "open"
    /\ tasks' = [tasks EXCEPT !.serve = "returned"]
    /\ UNCHANGED outsideShutdown

\* select, case <-ctx.Done(): Stop closes the connections, which cancels
\* the RPCs in flight without waiting for their handlers, and Shutdown
\* returns ctx.Err()
ShutdownStops ==
    /\ tasks.shutdown = "select"
    /\ tasks.ctxDone
    /\ tasks' = [tasks EXCEPT
                    !.shutdown = "returned",
                    !.ret = "context done",
                    !.hardStopped = TRUE,
                    !.call = [c \in RpcCalls |->
                                IF tasks.call[c] = "running" THEN "cancelled"
                                ELSE tasks.call[c]]]
    /\ UNCHANGED outsideShutdown

\* select, case <-stopped: Shutdown returns nil
ShutdownDrained ==
    /\ tasks.shutdown = "select"
    /\ tasks.stopped = "closed"
    /\ tasks' = [tasks EXCEPT !.shutdown = "returned", !.ret = Nil]
    /\ UNCHANGED outsideShutdown

InitShutdown ==
    /\ router = NilRouter
    /\ requestMatcher = NoMatcher
    /\ cnameMatcher = NoMatcher
    /\ NoQuery
    /\ mu = Unlocked
    /\ readers = <<>>
    /\ writer = <<>>
    /\ inForce = NotUpdated
    /\ tasks = NotServing
    /\ handlers = <<>>
    /\ metrics = NoMetrics

NextShutdown ==
    \/ \E listens \in BOOLEAN : GrpcStart(listens)
    \/ \E c \in RpcCalls : CallStarts(c)
    \/ \E c \in RpcCalls : CallReturns(c)
    \/ ContextDone
    \/ Shutdown
    \/ GracefulStopReturns
    \/ ServeReturns
    \/ ShutdownStops
    \/ ShutdownDrained

SpecShutdown == InitShutdown /\ [][NextShutdown]_vars

(***************************************************************************)
(* SystemResolver.Resolve: the loop over the configured servers.           *)
(***************************************************************************)
\* a system resolver has at most MaxServers servers
MaxServers == 3

\* what the exchange with a server does: two ways to fail, a positive
\* answer, a negative answer
ServerBehaviours == {"timeout", "refused", "answer", "nxdomain"}
ServerLists == SeqsUpTo(ServerBehaviours, MaxServers)

\* Client.ExchangeContext with server i of the list
ExchangeContext(servers, i) ==
    IF servers[i] \in {"timeout", "refused"}
    THEN [resp |-> NoMsg, err |-> <<servers[i], i>>]
    ELSE [resp |-> [Rcode |-> IF servers[i] = "nxdomain" THEN RcodeNameError
                              ELSE RcodeSuccess,
                    server |-> i],
          err |-> Nil]

\* the loop changed to go on to the next server after a negative answer
ExchangeFailed_OnNegativeAnswer(x) ==
    x.err # Nil \/ x.resp.Rcode # RcodeSuccess

\* `if err != nil { lastErr = err; continue }`
ExchangeFailed(x) == x.err # Nil

\* no Resolve call on the system resolver
NoResolve ==
    [pc |-> "idle", servers |-> <<>>, contacted |-> <<>>, lastErr |-> Nil,
     resp |-> NoMsg, err |-> Nil]

\* the variables SystemResolver.Resolve does not touch
outsideSystem == <<requestMatcher, cnameMatcher, inForce, outsideRace>>

\* Resolve is called on a system resolver with these servers
SystemResolve(servers) ==
    /\ tasks.pc = "idle"
    /\ tasks' = [NoResolve EXCEPT !.pc = "loop", !.servers = servers]
    /\ UNCHANGED outsideSystem

\* one turn of the loop: the next server is asked; an error is kept as
\* lastErr and the loop goes on, a reply is returned
SystemExchange ==
    /\ tasks.pc = "loop"
    /\ Len(tasks.contacted) < Len(tasks.servers)
    /\ LET i == Len(tasks.contacted) + 1
           x == ExchangeContext(tasks.servers, i)
       IN  tasks' = IF ExchangeFailed(x)
                    THEN [tasks EXCEPT !.contacted = Append(@, i),
                                       !.lastErr = x.err]
                    ELSE [tasks EXCEPT !.contacted = Append(@, i),
                                       !.resp = x.resp,
                                       !.pc = "returned"]
    /\ UNCHANGED outsideSystem

\* after the loop: the last error is wrapped, or there was no server
SystemFails ==
    /\ tasks.pc = "loop"
    /\ Len(tasks.contacted) = Len(tasks.servers)
    /\ tasks' = [tasks EXCEPT
                    !.pc = "returned",
                    !.err = IF tasks.lastErr # Nil
                            THEN <<"all system resolvers failed", tasks.lastErr>>
                            ELSE <<"no system resolvers available">>]
    /\ UNCHANGED outsideSystem

\* the caller has used the result
SystemDone ==
    /\ tasks.pc = "returned"
    /\ tasks' = NoResolve
    /\ UNCHANGED outsideSystem

InitSystem ==
    /\ router = NilRouter
    /\ requestMatcher = NoMatcher
    /\ cnameMatcher = NoMatcher
    /\ NoQuery
    /\ mu = Unlocked
    /\ readers = <<>>
    /\ writer = <<>>
    /\ inForce = NotUpdated
    /\ tasks = NoResolve
    /\ handlers = <<>>
    /\ metrics = NoMetrics

NextSystem ==
    \/ \E servers \in ServerLists : SystemResolve(servers)
    \/ SystemExchange
    \/ SystemFails
    \/ SystemDone

SpecSystem == InitSystem /\ [][NextSystem]_vars

(***************************************************************************)
(* The constructors: NewRegexMatcher on the pattern entries of the         *)
(* configuration, NewRouter on a RouterConfig, and the matcher they build  *)
(* asked about names and given one more pattern at the end of its list.    *)
(***************************************************************************)
\* the longest list of entries a matcher is constructed from, and the
\* longest list it grows to
MaxEntries == 2
MaxPatterns == 3

\* the entries of a pattern list as configured: patterns, a pattern inside
\* blanks, a blank, an empty entry, and an entry that does not compile
PatternEntries ==
    { <<"e">>, <<"w", "e">>, <<" ", "e", ".", " ">>, <<" ">>, <<>>,
      <<"[", "x">> }
ConstructInputs == SeqsUpTo(PatternEntries, MaxEntries)

\* the names a matcher is asked about
ProbeNames == QNames \cup { <<"w", "e">> }

\* nothing constructed and nothing asked
NoProbe == [domain |-> <<>>, match |-> FALSE, pattern |-> <<>>, asked |-> FALSE]
NoConfig == [IsNil |-> TRUE]
NotConstructed ==
    [call |-> "none", patterns |-> <<>>, err |-> Nil, cfg |-> NoConfig,
     before |-> NoMatcher, probe |-> NoProbe]

outsideConstruct == <<cnameMatcher, inForce, outsideRace>>

\* requestMatcher, err := matcher.NewRegexMatcher(patterns), once
ConstructMatcher(patterns) ==
    /\ ~requestMatcher.present
    /\ tasks.err = Nil
    /\ requestMatcher' = NewRegexMatcher(patterns)
    /\ tasks' = [tasks EXCEPT !.call = "NewRegexMatcher",
                              !.patterns = patterns,
                              !.err = NewRegexMatcherErr(patterns),
                              !.before = NoMatcher,
                              !.probe = NoProbe]
    /\ UNCHANGED outsideConstruct

\* router := resolver.NewRouter(cfg), once
ConstructRouter(cfg) ==
    /\ router = NilRouter
    /\ router' = NewRouter(cfg)
    /\ tasks' = [tasks EXCEPT !.call = "NewRouter", !.cfg = cfg]
    /\ UNCHANGED <<requestMatcher, cnameMatcher, inForce>>
    /\ UNCHANGED <<pc, transport, req, pending, calls, result, routeErr, sent,
                   rpcErr, rpcResp, ctxDone, lockVars, gaugeVars>>

\* Match(domain) and MatchingPattern(domain) on the constructed matcher
MatcherProbe(domain) ==
    /\ requestMatcher.present
    /\ tasks' = [tasks EXCEPT
                    !.call = "Match",
                    !.probe = [domain |-> domain,
                               match |-> Match(requestMatcher, domain),
                               pattern |-> MatchingPattern(requestMatcher, domain),
                               asked |-> TRUE]]
    /\ UNCHANGED <<requestMatcher, outsideConstruct>>

\* UpdatePatterns(append(Patterns(), entry)): the list with one more entry
\* at its end
AppendPattern(entry) ==
    /\ requestMatcher.present
    /\ Len(requestMatcher.raw) < MaxPatterns
    /\ LET u == UpdatePatterns(Append(Patterns(requestMatcher), entry))
       IN  /\ requestMatcher' =
                 IF u.install
                 THEN [present |-> TRUE, patterns |-> u.new, raw |-> u.new]
                 ELSE requestMatcher
           /\ tasks' = [tasks EXCEPT !.call = "UpdatePatterns",
                                     !.patterns = <<entry>>,
                                     !.err = u.err,
                                     !.before = requestMatcher,
                                     !.probe = NoProbe]
    /\ UNCHANGED outsideConstruct

InitConstruct ==
    /\ router = NilRouter
    /\ requestMatcher = NoMatcher
    /\ cnameMatcher = NoMatcher
    /\ NoQuery
    /\ mu = Unlocked
    /\ readers = <<>>
    /\ writer = <<>>
    /\ inForce = NotUpdated
    /\ tasks = NotConstructed
    /\ handlers = <<>>
    /\ metrics = NoMetrics

NextConstruct ==
    \/ \E patterns \in ConstructInputs : ConstructMatcher(patterns)
    \/ \E cfg \in RouterConfigs : ConstructRouter(cfg)
    \/ \E domain \in ProbeNames : MatcherProbe(domain)
    \/ \E entry \in PatternEntries : AppendPattern(entry)

SpecConstruct == InitConstruct /\ [][NextConstruct]_vars

(***************************************************************************)
(* Router.Route called repeatedly and concurrently on one router whose     *)
(* pattern lists and upstream answers stay as they are: the calls, each    *)
(* up to its next resolver call.                                           *)
(***************************************************************************)
\* the Route calls are 1..MaxQueries
MaxQueries == 2
Queries == 1..MaxQueries

\* the names asked for: a name, the same name with a capital letter, the
\* same name without its trailing dot, and another name
RepeatNames ==
    { <<"w", "e", ".">>, <<"W", "e", ".">>, <<"w", "e">>, <<"x", ".">> }

\* the requests Route is called with: one question each, or none
RepeatRequests ==
    { [Id |-> 0, Response |-> FALSE, RecursionDesired |-> TRUE,
       Rcode |-> RcodeSuccess, Question |-> qs,
       Answer |-> <<>>, Ns |-> <<>>, Extra |-> <<>>]
      : qs \in { <<>> } \cup { <<[Name |-> n, Qtype |-> "A"]>> : n \in RepeatNames } }

\* the routers: every slot configured, an explicit resolver beside the
\* legacy system resolver, and the system resolver alone
RepeatConfigs ==
    { cfg \in RouterConfigs :
        \/ /\ cfg.ExplicitResolver # Nil /\ cfg.PassthroughResolver # Nil
           /\ cfg.NoCnameResponseResolver # Nil /\ cfg.NoCnameMatchResolver # Nil
           /\ cfg.SystemResolver = Nil
        \/ /\ cfg.PassthroughResolver = Nil /\ cfg.NoCnameResponseResolver = Nil
           /\ cfg.NoCnameMatchResolver = Nil /\ cfg.SystemResolver # Nil }

\* what a resolver does with every request: it fails, or replies with this
\* ANSWER section
Upstreams ==
    [explicit : [err : BOOLEAN, answer : UpstreamAnswers],
     fallback : [err : BOOLEAN, answer : { <<RR_A>> }]]

\* Resolver.Resolve of the resolver in a slot; a reply carries the display
\* name of the resolver it came from
ResolveOutcome(slot) ==
    IF slot = "explicitResolver" THEN tasks.upstream.explicit
    ELSE tasks.upstream.fallback
ResolveReply(slot) ==
    [Id |-> 0, Response |-> TRUE, RecursionDesired |-> TRUE,
     Rcode |-> IF ResolveOutcome(slot).answer = <<>>
               THEN RcodeNameError ELSE RcodeSuccess,
     Question |-> <<>>, Answer |-> ResolveOutcome(slot).answer,
     Ns |-> IF ResolveOutcome(slot).answer = <<>> THEN <<RR_SOA>> ELSE <<>>,
     Extra |-> <<>>, from |-> SlotResolver(slot)]

\* a Route call that has not started
NoRoute ==
    [pc |-> "idle", req |-> NoMsg, pending |-> NoCall, calls |-> <<>>,
     result |-> NoResult, err |-> Nil]

\* a Route call after a step of Route that ended in c: blocked in the next
\* resolver call, or returned
RouteStep(t, c) ==
    IF c.kind = "call"
    THEN [t EXCEPT !.pc = "upstream", !.pending = c,
                   !.calls = Append(t.calls, SlotResolver(c.slot))]
    ELSE [t EXCEPT !.pc = "done", !.pending = NoCall,
                   !.result = c.result, !.err = c.err]

outsideRepeat == <<requestMatcher, cnameMatcher, inForce, outsideRace>>

\* Route(ctx, r), up to its first resolver call or its return
RouteInvoked(q, r) ==
    /\ tasks.query[q].pc = "idle"
    /\ tasks' = [tasks EXCEPT
                    !.query[q] = RouteStep([NoRoute EXCEPT !.req = r], Route(r))]
    /\ UNCHANGED outsideRepeat

\* the resolver call a Route call is blocked in returns, and Route goes on
\* to its next resolver call or its return
ResolverReturns(q) ==
    /\ tasks.query[q].pc = "upstream"
    /\ LET t == tasks.query[q]
       IN  tasks' = [tasks EXCEPT
                        !.query[q] =
                            RouteStep(t,
                                IF ResolveOutcome(t.pending.slot).err
                                THEN RouteResumeErr(t.pending)
                                ELSE RouteResume(t.pending,
                                                 ResolveReply(t.pending.slot)))]
    /\ UNCHANGED outsideRepeat

InitRepeat ==
    /\ router \in { NewRouter(cfg) : cfg \in RepeatConfigs }
    /\ requestMatcher \in { NewRegexMatcher(<< <<"w", "e">>, <<"e">> >>), NoMatcher }
    /\ cnameMatcher \in { NewRegexMatcher(<< <<"c", "d">>, <<"d">> >>), NoMatcher }
    /\ NoQuery
    /\ mu = Unlocked
    /\ readers = <<>>
    /\ writer = <<>>
    /\ inForce = NotUpdated
    /\ tasks \in [upstream : Upstreams, query : [Queries -> {NoRoute}]]
    /\ handlers = <<>>
    /\ metrics = NoMetrics

NextRepeat ==
    \/ \E q \in Queries, r \in RepeatRequests : RouteInvoked(q, r)
    \/ \E q \in Queries : ResolverReturns(q)

SpecRepeat == InitRepeat /\ [][NextRepeat]_vars

(***************************************************************************)
(* Resolve of a DNSResolver and of a SystemResolver on the caller's        *)
(* message: the messages are objects the caller and the resolver hold      *)
(* pointers to.                                                            *)
(***************************************************************************)
\* the *dns.Msg pointers: the caller's message and the resolver's copy
MsgRefs == {1, 2}
NoRef == 0

\* the resolvers: DNSResolver with its recursive flag set or not, and
\* SystemResolver with one or two servers
UpstreamHandles ==
    { [kind |-> "dns", recursive |-> TRUE, servers |-> 1],
      [kind |-> "dns", recursive |-> FALSE, servers |-> 1],
      [kind |-> "system", recursive |-> FALSE, servers |-> 1],
      [kind |-> "system", recursive |-> FALSE, servers |-> 2] }

\* Msg.Copy changed to hand back the message itself
Copy_SameMessage(heap, ref) == [ref |-> ref, heap |-> heap]

\* Msg.Copy: a new message with the fields of the old one
Copy(heap, ref) ==
    LET new == CHOOSE n \in MsgRefs : heap[n] = NoMsg
    IN  [ref |-> new, heap |-> [heap EXCEPT ![new] = heap[ref]]]

\* the recursion-desired flag a resolver puts on what it sends
RecursionPolicy(handle) ==
    IF handle.kind = "system" THEN TRUE ELSE handle.recursive

\* no Resolve call
NoUpstream ==
    [pc |-> "idle", handle |-> [kind |-> "none", recursive |-> FALSE, servers |-> 0],
     heap |-> [n \in MsgRefs |-> NoMsg], req |-> NoRef, reqCopy |-> NoRef,
     given |-> NoMsg, wire |-> <<>>, reply |-> NoMsg, resp |-> NoMsg, err |-> Nil]

outsideUpstream == <<requestMatcher, cnameMatcher, inForce, outsideRace>>

\* Resolve(ctx, req) up to the exchange: reqCopy := req.Copy() and the
\* assignment to reqCopy.RecursionDesired
UpstreamResolve(handle, r) ==
    /\ tasks.pc = "idle"
    /\ LET heap == [NoUpstream.heap EXCEPT ![1] = r]
           c == Copy(heap, 1)
       IN  tasks' = [NoUpstream EXCEPT
                        !.pc = "exchange",
                        !.handle = handle,
                        !.req = 1,
                        !.given = r,
                        !.reqCopy = c.ref,
                        !.heap = [c.heap EXCEPT
                                     ![c.ref].RecursionDesired =
                                         RecursionPolicy(handle)]]
    /\ UNCHANGED outsideUpstream

\* client.ExchangeContext(ctx, reqCopy, server) returns the server's reply,
\* which Resolve returns as it is
ExchangeReturns(reply) ==
    /\ tasks.pc = "exchange"
    /\ tasks' = [tasks EXCEPT !.pc = "returned",
                              !.wire = Append(@, tasks.heap[tasks.reqCopy]),
                              !.reply = reply,
                              !.resp = reply]
    /\ UNCHANGED outsideUpstream

\* client.ExchangeContext returns an error: a system resolver with servers
\* left goes on to the next one; otherwise Resolve returns the wrapped error
ExchangeErrs ==
    /\ tasks.pc = "exchange"
    /\ tasks' = IF tasks.handle.kind = "system"
                   /\ Len(tasks.wire) + 1 < tasks.handle.servers
                THEN [tasks EXCEPT !.wire = Append(@, tasks.heap[tasks.reqCopy])]
                ELSE [tasks EXCEPT
                         !.pc = "returned",
                         !.wire = Append(@, tasks.heap[tasks.reqCopy]),
                         !.err = IF tasks.handle.kind = "system"
                                 THEN "all system resolvers failed"
                                 ELSE "DNS query failed"]
    /\ UNCHANGED outsideUpstream

\* the caller has used the result and drops the messages
UpstreamDone ==
    /\ tasks.pc = "returned"
    /\ tasks' = NoUpstream
    /\ UNCHANGED outsideUpstream

InitUpstream ==
    /\ router = NilRouter
    /\ requestMatcher = NoMatcher
    /\ cnameMatcher = NoMatcher
    /\ NoQuery
    /\ mu = Unlocked
    /\ readers = <<>>
    /\ writer = <<>>
    /\ inForce = NotUpdated
    /\ tasks = NoUpstream
    /\ handlers = <<>>
    /\ metrics = NoMetrics

NextUpstream ==
    \/ \E handle \in UpstreamHandles, r \in Requests : UpstreamResolve(handle, r)
    \/ \E reply \in UpstreamReplies : ExchangeReturns(reply)
    \/ ExchangeErrs
    \/ UpstreamDone

SpecUpstream == InitUpstream /\ [][NextUpstream]_vars

(***************************************************************************)
(* The application: App.Start with the DNS server's two listener           *)
(* goroutines, and App.Shutdown, by the server calls they make; the        *)
(* readiness flag of the health checker.                                   *)
(***************************************************************************)
\* NewApp has returned: nothing is started, and NewChecker gave ready = false
NewApp ==
    [pc |-> "new", ready |-> FALSE,
     listener |-> [l \in Listeners |-> "none"], errCh |-> <<>>,
     grpc |-> "none", http |-> "none",
     startErr |-> Nil, stops |-> <<>>, failed |-> {}, shutdownErr |-> Nil,
     ret |-> Nil]

\* dns Server.Shutdown changed to return at the first listener that fails
dnsShutdown_StopAtFirstFailure(udpOk, tcpOk) ==
    [stops |-> IF udpOk THEN <<"udp", "tcp">> ELSE <<"udp">>,
     failed |-> IF ~udpOk THEN {"udp"} ELSE IF ~tcpOk THEN {"tcp"} ELSE {},
     err |-> IF udpOk /\ tcpOk THEN Nil ELSE "shutdown errors"]

\* dns Server.Shutdown: ShutdownContext on the UDP server and on the TCP
\* server, the errors collected
dnsShutdown(udpOk, tcpOk) ==
    [stops |-> <<"udp", "tcp">>,
     failed |-> (IF udpOk THEN {} ELSE {"udp"}) \cup (IF tcpOk THEN {} ELSE {"tcp"}),
     err |-> IF udpOk /\ tcpOk THEN Nil ELSE "shutdown errors"]

outsideApp == <<requestMatcher, cnameMatcher, inForce, outsideRace>>

\* App.Start up to the sleep of DNSServer.Start: the two listener
\* goroutines are started
AppStart ==
    /\ tasks.pc = "new"
    /\ tasks' = [tasks EXCEPT !.pc = "dns",
                              !.listener = [l \in Listeners |-> "starting"]]
    /\ UNCHANGED outsideApp

\* ListenAndServe of a listener binds its socket and serves
AppListenerBinds(l) ==
    /\ tasks.listener[l] = "starting"
    /\ tasks' = [tasks EXCEPT !.listener[l] = "bound"]
    /\ UNCHANGED outsideApp

\* ListenAndServe of a listener fails to bind, and the goroutine puts the
\* error into errCh
AppListenerFails(l) ==
    /\ tasks.listener[l] = "starting"
    /\ tasks' = [tasks EXCEPT !.listener[l] = "failed",
                              !.errCh = Append(@, l)]
    /\ UNCHANGED outsideApp

\* DNSServer.Start returns after its sleep: an error that is in errCh, or
\* nil; with an error App.Start returns it
AppDNSStarted ==
    /\ tasks.pc = "dns"
    /\ tasks' = IF tasks.errCh # <<>>
                THEN [tasks EXCEPT !.pc = "failed",
                                   !.errCh = Tail(@),
                                   !.startErr = "failed to start DNS server"]
                ELSE [tasks EXCEPT !.pc = "grpc"]
    /\ UNCHANGED outsideApp

\* the rest of App.Start: GRPCServer.Start fails to listen and App.Start
\* returns the error, or it listens, the HTTP goroutine is started, and
\* SetReady(true)
AppGRPCStart(listens) ==
    /\ tasks.pc = "grpc"
    /\ tasks' = IF listens
                THEN [tasks EXCEPT !.pc = "started", !.grpc = "serving",
                                   !.http = "serving", !.ready = TRUE]
                ELSE [tasks EXCEPT !.pc = "failed",
                                   !.startErr = "failed to start gRPC server"]
    /\ UNCHANGED outsideApp

\* App.Shutdown up to its first server call: SetReady(false)
AppShutdown ==
    /\ tasks.pc \in {"started", "failed"}
    /\ tasks' = [tasks EXCEPT !.pc = "stop http", !.ready = FALSE]
    /\ UNCHANGED outsideApp

\* HTTPServer.Shutdown(ctx) returns
AppShutdownHTTP(ok) ==
    /\ tasks.pc = "stop http"
    /\ tasks' = [tasks EXCEPT
                    !.pc = "stop grpc",
                    !.http = "stopped",
                    !.stops = Append(@, "http"),
                    !.failed = IF ok THEN @ ELSE @ \cup {"http"},
                    !.shutdownErr = IF ok THEN @ ELSE "http"]
    /\ UNCHANGED outsideApp

\* GRPCServer.Shutdown(ctx) returns
AppShutdownGRPC(ok) ==
    /\ tasks.pc = "stop grpc"
    /\ tasks' = [tasks EXCEPT
                    !.pc = "stop dns",
                    !.grpc = "stopped",
                    !.stops = Append(@, "grpc"),
                    !.failed = IF ok THEN @ ELSE @ \cup {"grpc"},
                    !.shutdownErr = IF ok THEN @ ELSE "grpc"]
    /\ UNCHANGED outsideApp

\* DNSServer.Shutdown(ctx) returns, and App.Shutdown with it: an error when
\* a shutdown error was kept
AppShutdownDNS(udpOk, tcpOk) ==
    /\ tasks.pc = "stop dns"
    /\ LET d == dnsShutdown(udpOk, tcpOk)
           shutdownErr == IF d.err # Nil THEN "dns" ELSE tasks.shutdownErr
       IN  tasks' = [tasks EXCEPT
                        !.pc = "stopped",
                        !.listener = [l \in Listeners |->
                                         IF l \in { d.stops[i] : i \in 1..Len(d.stops) }
                                         THEN "stopped" ELSE @[l]],
                        !.stops = @ \o d.stops,
                        !.failed = @ \cup d.failed,
                        !.shutdownErr = shutdownErr,
                        !.ret = IF shutdownErr # Nil
                                THEN "shutdown completed with errors" ELSE Nil]
    /\ UNCHANGED outsideApp

InitApp ==
    /\ router = NilRouter
    /\ requestMatcher = NoMatcher
    /\ cnameMatcher = NoMatcher
    /\ NoQuery
    /\ mu = Unlocked
    /\ readers = <<>>
    /\ writer = <<>>
    /\ inForce = NotUpdated
    /\ tasks = NewApp
    /\ handlers = <<>>
    /\ metrics = NoMetrics

NextApp ==
    \/ AppStart
    \/ \E l \in Listeners : AppListenerBinds(l)
    \/ \E l \in Listeners : AppListenerFails(l)
    \/ AppDNSStarted
    \/ \E listens \in BOOLEAN : AppGRPCStart(listens)
    \/ AppShutdown
    \/ \E ok \in BOOLEAN : AppShutdownHTTP(ok)
    \/ \E ok \in BOOLEAN : AppShutdownGRPC(ok)
    \/ \E udpOk \in BOOLEAN, tcpOk \in BOOLEAN : AppShutdownDNS(udpOk, tcpOk)

SpecApp == InitApp /\ [][NextApp]_vars

\* the outcome of Route for the request of the query that is done: what
\* Route returned, and for a request without a question, which Query does
\* not hand to the router, the error Route returns for it
RouteOutcome ==
    IF Len(req.Question) = 0 THEN RouteFail("no question in request")
    ELSE IF routeErr # Nil THEN RouteFail(routeErr)
    ELSE RouteOk(result)

\* a query that came in as a DNS message or as a Query packet that decoded
\* is done, on a server that has a router
FrontEndDone ==
    /\ pc = "done"
    /\ transport \in {"dns", "grpc"}
    /\ router # NilRouter
    /\ req # NoMsg

\* the messages a front end hands to its client, in wire form
OnTheWire(tr, msgs) ==
    IF tr = "dns" THEN [i \in 1..Len(msgs) |-> Pack(msgs[i])] ELSE msgs

(***************************************************************************)
(* Vocabulary of the properties                                            *)
(***************************************************************************)
\* the query in flight went through Router.Route
RouteCalled ==
    \/ transport = "dns"
    \/ transport = "resolve"
    \/ /\ transport = "grpc"
       /\ req # NoMsg
       /\ router # NilRouter
       /\ Len(req.Question) > 0

\* Route has returned for the query in flight
RouteReturned == RouteCalled /\ pc = "done"

\* the dot-stripped name of the first question
QName == TrimSuffixDot(req.Question[1].Name)

\* the request matcher is present and matches the query name
RequestMatches ==
    /\ RouteCalled
    /\ Len(req.Question) > 0
    /\ requestMatcher.present
    /\ Match(requestMatcher, QName)

\* the request matcher is absent or reports no match
RequestUnmatched ==
    /\ RouteCalled
    /\ Len(req.Question) > 0
    /\ ~(requestMatcher.present /\ Match(requestMatcher, QName))

\* call number i of this Route call went to `slot` with the original request
CallTo(i, slot) ==
    /\ Len(calls) >= i
    /\ calls[i].slot = slot
    /\ calls[i].name = router[slot]
    /\ calls[i].req = req

\* Route returned the reply of call number i, under that resolver's name
ReturnedReplyOf(i) ==
    /\ routeErr = Nil
    /\ result # NoResult
    /\ result.Response = calls[i].resp
    /\ result.ResolverUsed = calls[i].name

\* the first explicit reply came back and is the one Route inspects
ExplicitReplied ==
    /\ RequestMatches
    /\ Len(calls) >= 1
    /\ calls[1].slot = "explicitResolver"
    /\ calls[1].state = "ok"

\* the CNAME targets of the first explicit reply, dot-stripped, in order
InspectedTargets ==
    LET cn == ExtractCNAME(calls[1].resp)
    IN  [i \in 1..Len(cn) |-> TrimSuffixDot(cn[i])]

\* some inspected target matches a pattern of the CNAME matcher
SomeTargetMatches ==
    \E i \in 1..Len(InspectedTargets) :
        \E k \in 1..Len(cnameMatcher.patterns) :
            MatchString(cnameMatcher.patterns[k], InspectedTargets[i])

\* the first inspected target, in answer order, that matches
FirstMatchingTarget ==
    InspectedTargets[CHOOSE i \in 1..Len(InspectedTargets) :
        /\ Match(cnameMatcher, InspectedTargets[i])
        /\ \A k \in 1..(i - 1) : ~Match(cnameMatcher, InspectedTargets[k])]

(***************************************************************************)
(* Properties of Router.Route                                              *)
(***************************************************************************)
\* C1: a request with a question whose name the request matcher (absent or
\* present) does not match makes exactly one resolver call, to the
\* passthrough slot with the original request; when that call succeeds the
\* result carries its reply and name with both matched flags false; with
\* an empty passthrough slot Route fails with "no resolver available" and
\* no resolver is called.
C1_PassthroughOnly ==
    RequestUnmatched =>
        IF router.passthroughResolver = Nil
        THEN /\ pc = "done"
             /\ calls = <<>>
             /\ routeErr = "no resolver available"
             /\ result = NoResult
        ELSE /\ Len(calls) = 1
             /\ CallTo(1, "passthroughResolver")
             /\ (pc = "done" /\ calls[1].state = "ok") =>
                    /\ ReturnedReplyOf(1)
                    /\ result.ResolverUsed = router.passthroughResolver
                    /\ ~result.RequestMatched
                    /\ ~result.CNAMEMatched

\* C1 witness: the pattern "e." would match the unstripped name
\* "we." but not the stripped "we"; passthrough answered with a foreign ID
C1_Witness ==
    /\ RequestUnmatched
    /\ pc = "done"
    /\ requestMatcher.present
    /\ MatchString(requestMatcher.patterns[1], req.Question[1].Name)
    /\ Len(calls) = 1
    /\ calls[1].state = "ok"
    /\ result.ResolverUsed = "passthrough"
    /\ router.noCnameResponseResolver # Nil

\* C2: when the request matches, the first explicit reply has a CNAME, the
\* CNAME matcher is present and some target matches, Route makes exactly
\* one more call, to the explicit slot with the original request, having
\* set CNAMEMatched and the pattern that matches the first matching target
\* in answer order; it returns the reply of that second call under the
\* explicit resolver's name.
C2_CNAMEMatchRequeriesExplicit ==
    (ExplicitReplied /\ HasCNAME(calls[1].resp) /\ cnameMatcher.present
        /\ SomeTargetMatches) =>
        /\ Len(calls) = 2
        /\ CallTo(2, "explicitResolver")
        /\ pc = "upstream" =>
              /\ pending.result.CNAMEMatched
              /\ pending.result.CNAMEPattern =
                    MatchingPattern(cnameMatcher, FirstMatchingTarget)
        /\ (pc = "done" /\ calls[2].state = "ok") =>
              /\ ReturnedReplyOf(2)
              /\ result.ResolverUsed = router.explicitResolver
              /\ result.RequestMatched
              /\ result.CNAMEMatched
              /\ result.CNAMEPattern =
                    MatchingPattern(cnameMatcher, FirstMatchingTarget)

\* C2 witness: the first CNAME target matches nothing and the second one
\* does; the second explicit reply differs from the first and is returned
C2_Witness ==
    /\ ExplicitReplied
    /\ pc = "done"
    /\ Len(ExtractCNAME(calls[1].resp)) = 2
    /\ ~Match(cnameMatcher, InspectedTargets[1])
    /\ Len(calls) = 2
    /\ calls[2].state = "ok"
    /\ calls[2].resp # calls[1].resp
    /\ result.CNAMEMatched
    /\ result.CNAMEPattern = <<"c", "d">>
    /\ result.Response = calls[2].resp

\* C3: when the request matches and the explicit reply has no CNAME record
\* or the CNAME matcher is absent, the one further call goes to the
\* no-cname-response slot with the original request, and Route returns
\* that reply (not the explicit one) under that resolver's name with
\* RequestMatched true and CNAMEMatched false; with that slot empty Route
\* fails and calls nothing further.
C3_NoCnameResponse ==
    (ExplicitReplied /\ (~HasCNAME(calls[1].resp) \/ ~cnameMatcher.present)) =>
        IF router.noCnameResponseResolver = Nil
        THEN /\ pc = "done"
             /\ Len(calls) = 1
             /\ routeErr = "no resolver available for matched pattern"
        ELSE /\ Len(calls) = 2
             /\ CallTo(2, "noCnameResponseResolver")
             /\ (pc = "done" /\ calls[2].state = "ok") =>
                    /\ ReturnedReplyOf(2)
                    /\ result.ResolverUsed = router.noCnameResponseResolver
                    /\ result.RequestMatched
                    /\ ~result.CNAMEMatched

\* C3 witness: the explicit reply has a CNAME but there is no CNAME
\* matcher; no-cname-response answers something else than explicit did
C3_Witness ==
    /\ ExplicitReplied
    /\ pc = "done"
    /\ HasCNAME(calls[1].resp)
    /\ ~cnameMatcher.present
    /\ Len(calls) = 2
    /\ calls[2].state = "ok"
    /\ calls[2].resp # calls[1].resp
    /\ result.ResolverUsed = "no-cname-response"
    /\ router.noCnameMatchResolver = "no-cname-match"

\* C4: when the request matches and the explicit reply has CNAME records
\* none of whose targets matches a CNAME pattern, the one further call goes
\* to the no-cname-match slot with the original request, and Route returns
\* its reply with RequestMatched true and CNAMEMatched false; with that
\* slot empty Route fails and calls nothing further.
C4_NoCnameMatch ==
    (ExplicitReplied /\ HasCNAME(calls[1].resp) /\ cnameMatcher.present
        /\ ~SomeTargetMatches) =>
        IF router.noCnameMatchResolver = Nil
        THEN /\ pc = "done"
             /\ Len(calls) = 1
             /\ routeErr = "no resolver available for matched pattern"
        ELSE /\ Len(calls) = 2
             /\ CallTo(2, "noCnameMatchResolver")
             /\ (pc = "done" /\ calls[2].state = "ok") =>
                    /\ ReturnedReplyOf(2)
                    /\ result.ResolverUsed = router.noCnameMatchResolver
                    /\ result.RequestMatched
                    /\ ~result.CNAMEMatched

\* C4 witness: the target "cd." is tested as "cd", which the pattern "d."
\* does not match; every slot holds a resolver of its own
C4_Witness ==
    /\ ExplicitReplied
    /\ pc = "done"
    /\ cnameMatcher.present
    /\ \E i \in 1..Len(calls[1].resp.Answer) :
          /\ calls[1].resp.Answer[i].Rrtype = "CNAME"
          /\ MatchString(cnameMatcher.patterns[1], calls[1].resp.Answer[i].Target)
    /\ Len(calls) = 2
    /\ calls[2].state = "ok"
    /\ result.ResolverUsed = "no-cname-match"
    /\ router.noCnameResponseResolver = "no-cname-response"
    /\ router.passthroughResolver = "passthrough"

\* C5: when the request matches and the explicit slot is empty, the only
\* call goes to the no-cname-response slot; when that slot is empty too
\* Route fails with a no-resolver error and calls nothing, the passthrough
\* slot included.
C5_NoExplicitFallback ==
    (RequestMatches /\ router.explicitResolver = Nil) =>
        IF router.noCnameResponseResolver = Nil
        THEN /\ pc = "done"
             /\ calls = <<>>
             /\ routeErr = "no resolver available for matched pattern"
             /\ result = NoResult
        ELSE /\ Len(calls) = 1
             /\ CallTo(1, "noCnameResponseResolver")
             /\ (pc = "done" /\ calls[1].state = "ok") =>
                    /\ ReturnedReplyOf(1)
                    /\ result.RequestMatched
                    /\ ~result.CNAMEMatched

\* C5 witness: explicit and no-cname-response are empty, passthrough is
\* configured, and the matched request failed without any call
C5_Witness ==
    /\ RequestMatches
    /\ pc = "done"
    /\ router.explicitResolver = Nil
    /\ router.noCnameResponseResolver = Nil
    /\ router.passthroughResolver = "passthrough"
    /\ calls = <<>>
    /\ routeErr # Nil
    /\ Len(sent) = 1

\* C6: a resolver call that fails is the last call of its Route call: the
\* calls before it succeeded, no call follows it (no other resolver, no
\* retry), and Route returns an error and no result.
C6_NoFallbackOnError ==
    \A i \in 1..Len(calls) :
        calls[i].state = "failed" =>
            /\ i = Len(calls)
            /\ \A k \in 1..(i - 1) : calls[k].state = "ok"
            /\ pc = "done"
            /\ routeErr # Nil
            /\ result = NoResult

\* C6 witness: the second explicit call, made after a CNAME match, failed
\* while every fallback slot held a resolver
C6_Witness ==
    /\ pc = "done"
    /\ Len(calls) = 2
    /\ calls[1].state = "ok"
    /\ calls[2].slot = "explicitResolver"
    /\ calls[2].state = "failed"
    /\ routeErr = "explicit resolver failed"
    /\ router.passthroughResolver # Nil
    /\ router.noCnameMatchResolver # Nil
    /\ router.noCnameResponseResolver # Nil

\* C7: one Route call makes at most two resolver calls; a second call only
\* follows a successful first call to the explicit slot; every slot but
\* explicit is called at most once; explicit is called a second time only
\* after a CNAME target of its first reply matched, and then both calls
\* carry the original request.
C7_AtMostTwoCalls ==
    /\ Len(calls) <= 2
    /\ \A s \in Slots \ {"explicitResolver"} :
          Cardinality({ i \in 1..Len(calls) : calls[i].slot = s }) <= 1
    /\ Len(calls) = 2 =>
          /\ calls[1].slot = "explicitResolver"
          /\ calls[1].state = "ok"
    /\ (Len(calls) = 2 /\ calls[2].slot = "explicitResolver") =>
          /\ cnameMatcher.present
          /\ SomeTargetMatches
          /\ calls[1].req = req
          /\ calls[2].req = req

\* C7 witness: explicit was called twice for a request without the RD bit
C7_Witness ==
    /\ pc = "done"
    /\ Len(calls) = 2
    /\ calls[1].slot = "explicitResolver"
    /\ calls[2].slot = "explicitResolver"
    /\ calls[2].state = "ok"
    /\ ~req.RecursionDesired
    /\ calls[1].req = calls[2].req

\* C8: in the result Route returns, and in the one it is building while
\* blocked in a resolver call, CNAMEMatched implies RequestMatched.
C8_CNAMEMatchedImpliesRequestMatched ==
    /\ result # NoResult => (result.CNAMEMatched => result.RequestMatched)
    /\ pc = "upstream" =>
          (pending.result.CNAMEMatched => pending.result.RequestMatched)

\* C8 witness: Route returned a result with CNAMEMatched set
C8_Witness ==
    /\ pc = "done"
    /\ result # NoResult
    /\ result.CNAMEMatched
    /\ result.RequestMatched
    /\ result.MatchedPattern = <<"w", "e">>

(***************************************************************************)
(* Properties of the transports                                            *)
(***************************************************************************)
\* reply number i as the client decodes it
ReplyMsg(i) == IF transport = "dns" THEN sent[i] ELSE Unpack(sent[i])

\* Route returned an error for the query in flight (no question, no
\* resolver available, or a failed resolver call) and the handler ended
RouteFailed == RouteReturned /\ routeErr # Nil

\* C9: every reply a transport sends, routed answer or SERVFAIL, carries
\* the transaction ID of the request it answers.
C9_IDFidelity ==
    \A i \in 1..Len(sent) : ReplyMsg(i).Id = req.Id

\* C9 witness: Query returned a routed answer whose upstream reply came
\* with another ID than the request's
C9_Witness ==
    /\ pc = "done"
    /\ transport = "grpc"
    /\ result # NoResult
    /\ result.Response.Id # req.Id
    /\ Len(sent) = 1
    /\ ReplyMsg(1).Id = req.Id
    /\ ReplyMsg(1).Answer = result.Response.Answer

\* C10 as stated: whenever Route returns an error the transport sends one
\* SERVFAIL reply whose question section equals the request's question
\* section and whose other sections are empty.
C10_ServfailCopiesQuestionSection ==
    RouteFailed =>
        /\ Len(sent) = 1
        /\ ReplyMsg(1).Rcode = RcodeServerFailure
        /\ ReplyMsg(1).Question = req.Question
        /\ ReplyMsg(1).Answer = <<>>
        /\ ReplyMsg(1).Ns = <<>>
        /\ ReplyMsg(1).Extra = <<>>

\* C10 amended: whenever Route returns an error the transport sends one
\* SERVFAIL reply whose question section holds the request's first question
\* (none when the request has none) and whose other sections are empty.
C10_ServfailMirrorsFirstQuestion ==
    RouteFailed =>
        /\ Len(sent) = 1
        /\ ReplyMsg(1).Rcode = RcodeServerFailure
        /\ ReplyMsg(1).Question =
              IF Len(req.Question) = 0 THEN <<>> ELSE <<req.Question[1]>>
        /\ ReplyMsg(1).Answer = <<>>
        /\ ReplyMsg(1).Ns = <<>>
        /\ ReplyMsg(1).Extra = <<>>

\* C10 witness: a request with two questions failed in its second explicit
\* call, after a first explicit reply with an answer, and Query returned a
\* SERVFAIL with one question
C10_Witness ==
    /\ RouteFailed
    /\ transport = "grpc"
    /\ Len(req.Question) = 2
    /\ req.Question[1] # req.Question[2]
    /\ Len(calls) = 2
    /\ calls[1].resp.Answer # <<>>
    /\ calls[2].state = "failed"
    /\ Len(sent) = 1
    /\ ReplyMsg(1).Rcode = RcodeServerFailure
    /\ ReplyMsg(1).Question = <<req.Question[1]>>

(***************************************************************************)
(* Properties of the RPC surface                                           *)
(***************************************************************************)
\* C11 as stated: whenever Route returns an error, on any transport, the
\* client gets a well-formed SERVFAIL result and no RPC error.
C11_RouterErrorNeverRpcError ==
    RouteFailed =>
        /\ rpcErr = Nil
        /\ \/ /\ Len(sent) = 1
              /\ ReplyMsg(1).Rcode = RcodeServerFailure
           \/ /\ rpcResp # NoMsg
              /\ rpcResp.Rcode = RcodeToString(RcodeServerFailure)

\* C11 amended: whenever Route returns an error, the DNS handler and Query
\* send one SERVFAIL reply with the request's ID and no RPC error, and
\* Resolve returns the RPC error "resolution failed" with no response.
C11_RouterErrorByTransport ==
    RouteFailed =>
        IF transport = "resolve"
        THEN /\ rpcErr = "resolution failed"
             /\ rpcResp = NoMsg
             /\ sent = <<>>
        ELSE /\ rpcErr = Nil
             /\ Len(sent) = 1
             /\ ReplyMsg(1).Rcode = RcodeServerFailure
             /\ ReplyMsg(1).Id = req.Id

\* C11 witness: Resolve of the name "we", made "we." and matched, failed in
\* its second explicit call and returned the RPC error
C11_Witness ==
    /\ RouteFailed
    /\ transport = "resolve"
    /\ req.Question[1].Name = <<"w", "e", ".">>
    /\ Len(calls) = 2
    /\ calls[2].state = "failed"
    /\ rpcErr = "resolution failed"
    /\ rpcResp = NoMsg

\* Query has returned
QueryReturned == transport = "grpc" /\ pc = "done"

\* the input of Query did not decode
DecodeFailed == QueryReturned /\ req = NoMsg

\* Route returned a reply that Pack refuses (a name in it is not fully
\* qualified)
RoutedReplyUnpackable ==
    /\ QueryReturned
    /\ result # NoResult
    /\ \E i \in 1..Len(result.Response.Answer) :
          /\ result.Response.Answer[i].Rrtype = "CNAME"
          /\ ~IsFqdn(result.Response.Answer[i].Target)

\* Query answered without routing: no router, or no question
QueryUnrouted ==
    /\ QueryReturned
    /\ req # NoMsg
    /\ (router = NilRouter \/ Len(req.Question) = 0)

QueryRouted == QueryReturned /\ RouteCalled /\ routeErr = Nil

\* the reply of the last resolver call, the one Route returns
LastReply == calls[Len(calls)].resp

HasInvalid(patterns) ==
    \E i \in 1..Len(patterns) : ~CompileOk(TrimSpace(patterns[i]))

\* C14: an UpdatePatterns call whose input holds an invalid pattern, at any
\* position, returns an error without ever taking the lock, and at every
\* moment from the call on the live list is the list from before the call:
\* Patterns(), Match and MatchingPattern answer as before.
C14_InvalidUpdateInstallsNothing ==
    (writer.pc # "idle" /\ HasInvalid(writer.input)) =>
        /\ writer.pc = "returned"
        /\ writer.err # Nil
        /\ ~mu.writer
        /\ requestMatcher.raw = writer.old
        /\ requestMatcher.patterns = writer.old
        /\ \A d \in QNames :
              /\ Match(requestMatcher, d) = Match(NewRegexMatcher(writer.old), d)
              /\ MatchingPattern(requestMatcher, d) =
                    MatchingPattern(NewRegexMatcher(writer.old), d)

\* C14 witness: the update's first pattern "x" is valid and its second is
\* not; the update returned its error, and a Match call made meanwhile
\* found the name "we." under the old list, which "x" does not match
C14_Witness ==
    /\ writer.pc = "returned"
    /\ writer.err # Nil
    /\ Len(writer.input) = 2
    /\ CompileOk(writer.input[1])
    /\ ~CompileOk(writer.input[2])
    /\ requestMatcher.raw = writer.old
    /\ \E r \in Readers :
          /\ readers[r].pc = "returned"
          /\ readers[r].op = "Match"
          /\ readers[r].ret = TRUE
          /\ ~MatchString(writer.input[1], TrimSuffixDot(readers[r].domain))

\* the lists that were or are completely installed: the one from before
\* the update and, once the update compiled, the new one
Versions ==
    IF writer.pc = "idle" THEN { requestMatcher.raw }
    ELSE IF writer.err = Nil THEN { writer.old, writer.new }
    ELSE { writer.old }

\* C15: while a reader holds the read lock no writer holds the mutex and
\* the compiled list and the source list are those of one version; what a
\* reader call has read is the complete old or the complete new list, the
\* two lists it read are equal in length and correspond index by index,
\* and its result is the result for that one version.
C15_ReadersSeeOneVersion ==
    \A r \in Readers :
        LET t == readers[r]
        IN  /\ t.pc \in {"range", "index", "len", "copy", "runlock"} =>
                  /\ ~mu.writer
                  /\ requestMatcher.patterns = requestMatcher.raw
            /\ (t.pc \in {"runlock", "returned"} /\ t.op = "Match") =>
                  /\ t.patterns \in Versions
                  /\ t.ret = Match(NewRegexMatcher(t.patterns), t.domain)
            /\ (t.pc \in {"runlock", "returned"} /\ t.op = "MatchingPattern") =>
                  /\ t.patterns \in Versions
                  /\ t.hit # 0 => t.raw = t.patterns
                  /\ t.ret = MatchingPattern(NewRegexMatcher(t.patterns), t.domain)
            /\ (t.pc \in {"runlock", "returned"} /\ t.op = "Patterns") =>
                  /\ t.raw \in Versions
                  /\ t.n = Len(t.raw)
                  /\ t.ret = t.raw

\* C15 witness: the update has been installed; one MatchingPattern call
\* returned a pattern of the old list and another one a pattern of the new
\* list, of another length
C15_Witness ==
    /\ writer.pc = "returned"
    /\ writer.err = Nil
    /\ Len(writer.new) # Len(writer.old)
    /\ \E r1, r2 \in Readers :
          /\ readers[r1].pc = "returned"
          /\ readers[r1].op = "MatchingPattern"
          /\ readers[r1].hit # 0
          /\ readers[r1].patterns = writer.old
          /\ readers[r2].pc = "returned"
          /\ readers[r2].op = "MatchingPattern"
          /\ readers[r2].hit # 0
          /\ readers[r2].patterns = writer.new
          /\ readers[r2].ret # readers[r1].ret

(***************************************************************************)
(* Properties of concurrent queries and updates                            *)
(***************************************************************************)
\* the versions of a matcher's list that were live at some moment since
\* version k became live
VersionsSince(which, k) ==
    { inForce[which][i] : i \in k..Len(inForce[which]) }

\* p is a pattern of the list v, and it matches the name
MatchingPatternOf(v, p, name) ==
    \E i \in 1..Len(v) : v[i] = p /\ MatchString(v[i], name)

\* C16: what a finished Route call reports about a matcher comes from one
\* version of that matcher's list that was live during the call: with
\* RequestMatched the MatchedPattern is a pattern of such a version and
\* matches the query name, and with CNAMEMatched the CNAMEPattern is a
\* pattern of such a version and matches the CNAME target.
C16_RouteSeesOneVersion ==
    LET t == tasks.route
    IN  t.pc = "done" =>
          /\ t.result.RequestMatched =>
               \E v \in VersionsSince("request", t.from.request) :
                   MatchingPatternOf(v, t.result.MatchedPattern, t.qname)
          /\ t.result.CNAMEMatched =>
               \E v \in VersionsSince("cname", t.from.cname) :
                   MatchingPatternOf(v, t.result.CNAMEPattern, t.cname)

\* C17: an update RPC that has returned has returned no RPC error; without
\* the matcher its response has success = false and a "not configured"
\* error; with an invalid pattern it has success = false, a non-empty error
\* and as patterns the list in force before the call; otherwise it has
\* success = true and as patterns the list this call installed.
C17_UpdateResponses ==
    \A a \in Returned :
        LET t == tasks.admin[a]
        IN  /\ t.rpcErr = Nil
            /\ ~MatcherOf(t.which).present =>
                 /\ ~t.resp.Success
                 /\ t.resp.Error \in { "request matcher not configured",
                                       "CNAME matcher not configured" }
            /\ (MatcherOf(t.which).present /\ HasInvalid(t.input)) =>
                 /\ ~t.resp.Success
                 /\ t.resp.Error # ""
                 /\ t.resp.Patterns = inForce[t.which][t.from]
            /\ (MatcherOf(t.which).present /\ ~HasInvalid(t.input)) =>
                 /\ t.resp.Success
                 /\ t.resp.Patterns = Trimmed(t.input, Len(t.input))

\* the successful update RPCs that had returned when the call with this
\* `after` started and whose list was still the live one of its matcher at
\* the call's read number `at`
NewestBefore(which, after, at) ==
    { a \in after : /\ tasks.admin[a].which = which
                    /\ tasks.admin[a].resp.Success
                    /\ tasks.admin[a].installed = at }

\* C18: once a successful update RPC has returned, a Route call or GetConfig
\* call that starts afterwards and reads the matcher before another update
\* of it takes effect uses exactly the list the update asked for: Route
\* matches against it, and GetConfig returns it.
C18_UpdateVisibleToLaterCalls ==
    LET r == tasks.route
        g == tasks.config
        Asks(a) == Trimmed(tasks.admin[a].input, Len(tasks.admin[a].input))
    IN  /\ \A a \in NewestBefore("request", r.after, r.at.request) :
              /\ r.used.request = Asks(a)
              /\ r.result.RequestMatched = (FirstHit(Asks(a), r.qname) # 0)
        /\ \A a \in NewestBefore("cname", r.after, r.at.cname) :
              /\ r.used.cname = Asks(a)
              /\ r.result.CNAMEMatched = (FirstHit(Asks(a), r.cname) # 0)
        /\ \A a \in NewestBefore("request", g.after, g.at.request) :
              g.resp.RequestPatterns = Asks(a)
        /\ \A a \in NewestBefore("cname", g.after, g.at.cname) :
              g.pc = "returned" => g.resp.CnamePatterns = Asks(a)

\* C18 witness: a Route call that started after an update of the request
\* list had returned has matched a name that only the new list matches, and
\* a GetConfig call that started after an update of the CNAME list had
\* returned has returned the new CNAME list.
C18_Witness ==
    /\ tasks.route.pc = "done"
    /\ tasks.route.qname = <<"x">>
    /\ tasks.route.result.RequestMatched
    /\ tasks.route.result.MatchedPattern = <<"x">>
    /\ NewestBefore("request", tasks.route.after, tasks.route.at.request) # {}
    /\ tasks.config.pc = "returned"
    /\ tasks.config.resp.CnamePatterns = << <<"w", "e">>, <<"e">> >>
    /\ NewestBefore("cname", tasks.config.after, tasks.config.at.cname) # {}

(***************************************************************************)
(* Properties of the deadline                                              *)
(***************************************************************************)
\* the DNS handler has replied to a query whose deadline passed while a
\* resolver call was pending
DeadlinePassed == transport = "dns" /\ pc = "done" /\ ctxDone

\* C19: when the deadline of a DNS query's context passes while a resolver
\* call is pending, whichever call it is, that call returns an error, Route
\* returns an error and the handler replies SERVFAIL, once; and a handler
\* blocked in a resolver call always gets to its reply.
C19_DeadlineAbortsQuery ==
    /\ [](DeadlinePassed =>
            /\ calls[Len(calls)].state = "failed"
            /\ result = NoResult
            /\ routeErr = ResolverFailed(calls[Len(calls)].slot)
            /\ Len(sent) = 1
            /\ sent[1].Rcode = RcodeServerFailure)
    /\ ((pc = "upstream") ~> (pc = "done"))

\* C19 witness: the deadline passed during the second call of the explicit
\* resolver, and the handler has replied SERVFAIL.
C19_Witness ==
    /\ DeadlinePassed
    /\ Len(calls) = 2
    /\ calls[1].state = "ok"
    /\ calls[2].slot = "explicitResolver"
    /\ calls[2].state = "failed"
    /\ routeErr # Nil
    /\ Len(sent) = 1
    /\ sent[1].Rcode = RcodeServerFailure

(***************************************************************************)
(* Properties of the gauge                                                 *)
(***************************************************************************)
\* the handlers between the increment and the deferred decrement
InFlight == { h \in Handlers : handlers[h].pc # "idle" }

\* C20: with a Metrics object, under every interleaving of the handlers
\* the active-connections gauge is the number of handlers in flight, hence
\* zero when none is: each handler raises it once at its start and lowers
\* it once when it returns, whichever way it returns.
C20_GaugeCountsHandlersInFlight ==
    metrics.present => metrics.activeConnections = Cardinality(InFlight)

\* C20 witness: handlers have returned by each of the three paths, none is
\* in flight, and the gauge is back at zero.
C20_Witness ==
    /\ metrics.present
    /\ InFlight = {}
    /\ { handlers[h].path : h \in Handlers } =
           { "success", "routing error", "write error" }
    /\ metrics.activeConnections = 0

(***************************************************************************)
(* Properties of the server lifecycle                                      *)
(***************************************************************************)
\* C21: when Start returns and one of its two listeners had failed to bind
\* by then, Start returns an error, whatever the order of the steps of the
\* listener goroutines and of Start.
C21_StartReturnsBindError ==
    (tasks.start = "returned" /\ tasks.failed # {}) => tasks.ret # Nil

\* C22: when Shutdown has returned, it has returned nil if the graceful
\* stop drained the calls in flight before the caller's context was done,
\* and otherwise it has hard-stopped the server and returned the context's
\* error; and no RPC handler that was in flight is still running.
C22_ShutdownOutcome ==
    tasks.shutdown = "returned" =>
        /\ tasks.drained => tasks.ret = Nil
        /\ ~tasks.drained => (tasks.hardStopped /\ tasks.ret = "context done")
        /\ \A c \in RpcCalls : tasks.call[c] = "idle"

(***************************************************************************)
(* Properties of the system resolver                                       *)
(***************************************************************************)
\* the servers of the call in progress that reply without an error, and
\* the first of them (0 when every server fails)
Replying == { i \in 1..Len(tasks.servers) :
                tasks.servers[i] \in {"answer", "nxdomain"} }
FirstReplying ==
    IF Replying = {} THEN 0 ELSE CHOOSE i \in Replying : \A k \in Replying : i <= k

\* the servers are contacted in list order, and none after one that replied
ContactedInOrder ==
    /\ \A k \in 1..Len(tasks.contacted) : tasks.contacted[k] = k
    /\ \A k \in 1..Len(tasks.contacted) - 1 : k \notin Replying

\* a returned call returns the reply of the first replying server, whatever
\* its RCODE, and has contacted no later server
FirstReplyReturned ==
    (tasks.pc = "returned" /\ FirstReplying # 0) =>
        /\ tasks.err = Nil
        /\ tasks.resp = ExchangeContext(tasks.servers, FirstReplying).resp
        /\ Len(tasks.contacted) = FirstReplying

\* C23 as stated: servers are tried strictly in list order, the first
\* non-error reply is returned at once whatever its RCODE, and the call
\* fails only if every server erred, reporting the last server's error.
C23_SystemResolverOrder ==
    /\ ContactedInOrder
    /\ FirstReplyReturned
    /\ (tasks.pc = "returned" /\ FirstReplying = 0) =>
         /\ tasks.resp = NoMsg
         /\ Len(tasks.servers) > 0
         /\ tasks.err = <<"all system resolvers failed",
                          ExchangeContext(tasks.servers, Len(tasks.servers)).err>>

\* C23 amended: as above, and with an empty server list the call fails
\* with "no system resolvers available", which is no server's error.
C23_SystemResolverOrderOrNoServers ==
    /\ ContactedInOrder
    /\ FirstReplyReturned
    /\ (tasks.pc = "returned" /\ FirstReplying = 0) =>
         /\ tasks.resp = NoMsg
         /\ Len(tasks.contacted) = Len(tasks.servers)
         /\ tasks.err =
              IF Len(tasks.servers) > 0
              THEN <<"all system resolvers failed",
                     ExchangeContext(tasks.servers, Len(tasks.servers)).err>>
              ELSE <<"no system resolvers available">>

\* C23 witness: two servers failed in different ways, the third returned
\* NXDOMAIN, and that reply was returned.
C23_Witness ==
    /\ tasks.pc = "returned"
    /\ tasks.servers = <<"timeout", "refused", "nxdomain">>
    /\ tasks.contacted = <<1, 2, 3>>
    /\ tasks.lastErr = <<"refused", 2>>
    /\ tasks.err = Nil
    /\ tasks.resp.Rcode = RcodeNameError

\* the resolver fields of a RouterConfig that have a fallback slot, with
\* the slot each fills
FallbackFields ==
    { <<"PassthroughResolver", "passthroughResolver">>,
      <<"NoCnameResponseResolver", "noCnameResponseResolver">>,
      <<"NoCnameMatchResolver", "noCnameMatchResolver">> }

\* C24: in the router NewRouter builds, each of the passthrough,
\* no-cname-response and no-cname-match slots holds the resolver configured
\* for it when there is one, and the legacy system resolver exactly when
\* none was configured; the explicit slot holds what was configured for it
\* and never the system resolver in its place.
C24_SystemFillsEmptyFallbackSlots ==
    tasks.cfg # NoConfig =>
        /\ router.explicitResolver = tasks.cfg.ExplicitResolver
        /\ \A f \in FallbackFields :
              /\ tasks.cfg[f[1]] # Nil => router[f[2]] = tasks.cfg[f[1]]
              /\ tasks.cfg[f[1]] = Nil => router[f[2]] = tasks.cfg.SystemResolver

\* C24 witness: a router built from a system resolver, a configured
\* passthrough resolver, and nothing else
C24_Witness ==
    /\ tasks.cfg # NoConfig
    /\ tasks.cfg.SystemResolver = "system"
    /\ tasks.cfg.PassthroughResolver = "passthrough"
    /\ tasks.cfg.NoCnameMatchResolver = Nil
    /\ tasks.cfg.ExplicitResolver = Nil
    /\ router.passthroughResolver = "passthrough"
    /\ router.noCnameMatchResolver = "system"
    /\ router.explicitResolver = Nil

\* C26: MatchingPattern returns the source string of the first pattern, in
\* list order, whose regex matches the name (the empty string when none
\* does); Match is true exactly when MatchingPattern is non-empty; and a
\* pattern appended at the end of the list leaves MatchingPattern as it was
\* for every name that already matched.
C26_FirstPatternInListOrder ==
    /\ tasks.probe.asked =>
          LET d == TrimSuffixDot(tasks.probe.domain)
              raw == Patterns(requestMatcher)
          IN  /\ \/ /\ tasks.probe.pattern = <<>>
                    /\ \A i \in 1..Len(raw) : ~MatchString(raw[i], d)
                 \/ \E i \in 1..Len(raw) :
                       /\ tasks.probe.pattern = raw[i]
                       /\ MatchString(raw[i], d)
                       /\ \A k \in 1..(i - 1) : ~MatchString(raw[k], d)
              /\ tasks.probe.match <=> tasks.probe.pattern # <<>>
    /\ tasks.before.present =>
          \A n \in ProbeNames :
              MatchingPattern(tasks.before, n) # <<>> =>
                  MatchingPattern(requestMatcher, n) = MatchingPattern(tasks.before, n)

\* C26 witness: a pattern was appended that matches a name which an
\* earlier pattern matches too, and the matcher asked about that name
\* answered with the earlier pattern
C26_Witness ==
    /\ tasks.before.present
    /\ Len(Patterns(requestMatcher)) = Len(Patterns(tasks.before)) + 1
    /\ tasks.probe.asked
    /\ tasks.probe.match
    /\ tasks.probe.pattern = Patterns(requestMatcher)[1]
    /\ MatchString(Patterns(requestMatcher)[Len(Patterns(requestMatcher))],
                   TrimSuffixDot(tasks.probe.domain))
    /\ Patterns(requestMatcher)[Len(Patterns(requestMatcher))] # tasks.probe.pattern

\* NewRegexMatcher has returned for the entries in tasks.patterns
Constructed ==
    /\ ~tasks.before.present
    /\ requestMatcher.present \/ tasks.err # Nil

\* the entries that are not blank, and the k-th of them in input order
Surviving(entries) == { i \in 1..Len(entries) : TrimSpace(entries[i]) # <<>> }
KthSurviving(entries, k) ==
    CHOOSE i \in Surviving(entries) :
        Cardinality({ j \in Surviving(entries) : j <= i }) = k

\* C30: a matcher constructed from entries that all compile lists, as
\* Patterns(), the trimmed non-empty entries in input order; when an entry
\* does not compile the constructor returns no matcher and an error that
\* names the (trimmed) source string of the first such entry.
C30_ConstructedPatterns ==
    Constructed =>
        LET entries == tasks.patterns
            bad == { i \in 1..Len(entries) : ~CompileOk(TrimSpace(entries[i])) }
        IN  IF bad = {}
            THEN /\ tasks.err = Nil
                 /\ requestMatcher.present
                 /\ Len(Patterns(requestMatcher)) = Cardinality(Surviving(entries))
                 /\ \A k \in 1..Len(Patterns(requestMatcher)) :
                       Patterns(requestMatcher)[k] =
                           TrimSpace(entries[KthSurviving(entries, k)])
            ELSE /\ requestMatcher = NoMatcher
                 /\ tasks.err =
                       <<"invalid regex pattern",
                         TrimSpace(entries[CHOOSE i \in bad : \A k \in bad : i <= k])>>

\* C30 witness: a matcher constructed from a pattern inside blanks and an
\* empty entry lists the trimmed pattern alone
C30_Witness ==
    /\ Constructed
    /\ tasks.patterns = << <<>>, <<" ", "e", ".", " ">> >>
    /\ Patterns(requestMatcher) = << <<"e", ".">> >>
    /\ tasks.err = Nil

\* the Route calls that have returned
RoutesReturned == { q \in Queries : tasks.query[q].pc = "done" }

\* what a returned Route call decided: the resolver used and the matched
\* flags of its result, or its error
Decision(q) ==
    IF tasks.query[q].result = NoResult
    THEN <<"error", tasks.query[q].err>>
    ELSE <<tasks.query[q].result.ResolverUsed,
           tasks.query[q].result.RequestMatched,
           tasks.query[q].result.CNAMEMatched>>

ToLower(c) == IF c = "W" THEN "w" ELSE IF c = "E" THEN "e" ELSE c
Folded(name) ==
    [i \in 1..Len(TrimSuffixDot(name)) |-> ToLower(TrimSuffixDot(name)[i])]

\* the name a Route call was asked for
AskedName(q) == tasks.query[q].req.Question[1].Name

\* C27: two requests whose names differ only in letter case or in a
\* trailing dot get the same routing decision: the same error, or the same
\* matched flags, the same matched patterns and the same resolver.
C27_CaseAndDotInsensitive ==
    \A p \in RoutesReturned, q \in RoutesReturned :
        /\ Len(tasks.query[p].req.Question) > 0
        /\ Len(tasks.query[q].req.Question) > 0
        /\ Folded(AskedName(p)) = Folded(AskedName(q))
        => /\ Decision(p) = Decision(q)
           /\ tasks.query[p].result # NoResult =>
                 /\ tasks.query[p].result.MatchedPattern =
                       tasks.query[q].result.MatchedPattern
                 /\ tasks.query[p].result.CNAMEPattern =
                       tasks.query[q].result.CNAMEPattern

\* C28: a Route call with a request that has no question returns the error
\* "no question in request" and no result, so no matched flag and no
\* pattern of a matcher, and it has called no resolver, whatever the
\* matchers and the resolver slots are.
C28_NoQuestionNoRouting ==
    \A q \in RoutesReturned :
        Len(tasks.query[q].req.Question) = 0 =>
            /\ tasks.query[q].err = "no question in request"
            /\ tasks.query[q].result = NoResult
            /\ tasks.query[q].calls = <<>>

\* C28 witness: a Route call without a question has returned on a router
\* with a request matcher and a passthrough resolver
C28_Witness ==
    \E q \in RoutesReturned :
        /\ Len(tasks.query[q].req.Question) = 0
        /\ tasks.query[q].err # Nil
        /\ requestMatcher.present
        /\ router.passthroughResolver # Nil

\* C29: with a Metrics object, every reply whose sending failed, a routed
\* answer or a SERVFAIL after a routing error, has been counted once in the
\* error counter of type "write", and a handler whose send failed is
\* returning or has returned.
C29_WriteFailureCountedOnce ==
    /\ metrics.present => metrics.errors.write = tasks.writesFailed
    /\ tasks.writesFailed <= tasks.requests
    /\ \A h \in Handlers :
          handlers[h].path = "write error" => handlers[h].pc \in {"return", "idle"}

\* C31: from the call of Resolve on, the caller's message is what the
\* caller gave (flags, ID and questions as they were); every message the
\* resolver sends is that message with the recursion-desired flag set by
\* the resolver's policy, always true for the system resolver; and a reply
\* of the upstream is returned as the upstream sent it.
C31_ResolveLeavesRequestAlone ==
    tasks.pc # "idle" =>
        /\ tasks.heap[tasks.req] = tasks.given
        /\ \A i \in 1..Len(tasks.wire) :
              tasks.wire[i] =
                  [tasks.given EXCEPT !.RecursionDesired =
                                          RecursionPolicy(tasks.handle)]
        /\ tasks.handle.kind = "system" =>
              \A i \in 1..Len(tasks.wire) : tasks.wire[i].RecursionDesired
        /\ tasks.pc = "returned" /\ tasks.err = Nil => tasks.resp = tasks.reply

\* C31 witness: a non-recursive resolver was given a request that asks for
\* recursion, sent it without, and returned the reply
C31_Witness ==
    /\ tasks.pc = "returned"
    /\ tasks.handle.kind = "dns"
    /\ ~tasks.handle.recursive
    /\ tasks.given.RecursionDesired
    /\ Len(tasks.wire) = 1
    /\ ~tasks.wire[1].RecursionDesired
    /\ tasks.heap[tasks.req].RecursionDesired
    /\ tasks.resp # NoMsg

RECURSIVE SumOver(_, _)
\* the sum of f over the set S
SumOver(S, f) ==
    IF S = {} THEN 0
    ELSE LET x == CHOOSE y \in S : TRUE
         IN  f[x] + SumOver(S \ {x}, f)

\* C32: with a Metrics object, the request counter counts the messages
\* handed to the handler, once each; each message whose routing is over
\* has been counted in exactly one response-code counter: a routing error
\* under SERVFAIL together with one routing error, a routed reply under the
\* name of its RCODE together with one count of the resolver used; and a
\* routing error counts no resolver.
C32_CountersPerMessage ==
    metrics.present =>
        /\ metrics.requestsTotal = tasks.requests
        /\ metrics.errors.routing = tasks.routeErrors
        /\ \A c \in DOMAIN metrics.responseCodes :
              metrics.responseCodes[c] =
                  SumOver({ res \in RoutedResults : RcodeToString(res.Rcode) = c },
                          tasks.routed)
                  + (IF c = "SERVFAIL" THEN tasks.routeErrors ELSE 0)
        /\ \A n \in DOMAIN metrics.resolverUsed :
              metrics.resolverUsed[n] =
                  SumOver({ res \in RoutedResults : res.ResolverUsed = n },
                          tasks.routed)
        /\ tasks.requests =
              tasks.routeErrors + SumOver(RoutedResults, tasks.routed)
              + Cardinality({ h \in Handlers : handlers[h].pc = "route" })

\* C32 witness: one message ended in a routing error, another was routed
\* with a SERVFAIL reply of the upstream, and both are counted
C32_Witness ==
    /\ metrics.present
    /\ tasks.routeErrors = 1
    /\ SumOver({ res \in RoutedResults : res.Rcode = RcodeServerFailure },
               tasks.routed) = 1
    /\ metrics.responseCodes["SERVFAIL"] = 2
    /\ metrics.errors.routing = 1
    /\ SumOver(DOMAIN metrics.resolverUsed, metrics.resolverUsed) = 1

\* C33: in every RouteResult a Route call returns, ResolverUsed is the
\* display name of the resolver that sent the reply stored in Response,
\* MatchedPattern is empty when RequestMatched is false, and CNAMEPattern is
\* empty when CNAMEMatched is false; the patterns of a result still in the
\* making are empty under the same conditions.
C33_ResultNamesItsResolver ==
    \A q \in Queries :
        /\ /\ q \in RoutesReturned
           /\ tasks.query[q].result # NoResult
           => LET res == tasks.query[q].result
              IN  /\ res.ResolverUsed = res.Response.from
                  /\ ~res.RequestMatched => res.MatchedPattern = <<>>
                  /\ ~res.CNAMEMatched => res.CNAMEPattern = <<>>
        /\ tasks.query[q].pc = "upstream"
           => LET res == tasks.query[q].pending.result
              IN  /\ ~res.RequestMatched => res.MatchedPattern = <<>>
                  /\ ~res.CNAMEMatched => res.CNAMEPattern = <<>>

\* C33 witness: a matched request whose CNAME matched nothing was answered
\* by the no-cname-match resolver after the explicit resolver was asked
C33_Witness ==
    \E q \in RoutesReturned :
        /\ tasks.query[q].result # NoResult
        /\ tasks.query[q].result.RequestMatched
        /\ ~tasks.query[q].result.CNAMEMatched
        /\ tasks.query[q].calls = <<"explicit", "no-cname-match">>
        /\ tasks.query[q].result.ResolverUsed = "no-cname-match"
        /\ tasks.query[q].result.MatchedPattern # <<>>
        /\ tasks.query[q].result.CNAMEPattern = <<>>

\* C34: two update RPCs for the same matcher that both succeeded took
\* effect one after the other; the live list is the list of one of them in
\* full; and each response carries the list its own call installed.
C34_UpdatesSerialized ==
    \A a \in Returned, b \in Returned :
        /\ a # b
        /\ tasks.admin[a].which = tasks.admin[b].which
        /\ tasks.admin[a].resp.Success
        /\ tasks.admin[b].resp.Success
        => LET ta == tasks.admin[a]
               tb == tasks.admin[b]
               la == Trimmed(ta.input, Len(ta.input))
               lb == Trimmed(tb.input, Len(tb.input))
           IN  /\ ta.installed # tb.installed
               /\ Patterns(MatcherOf(ta.which)) \in {la, lb}
               /\ MatcherOf(ta.which).patterns = Patterns(MatcherOf(ta.which))
               /\ ta.resp.Patterns = la
               /\ tb.resp.Patterns = lb

\* C35: the application is ready only after App.Start has started the DNS
\* server and then the gRPC server without error, so with both DNS
\* listeners not failed and the gRPC server serving, and only until
\* App.Shutdown begins; it is not ready while Start has not returned, after
\* a failed Start, or once Shutdown has begun, whatever server is stopped.
C35_ReadinessFollowsLifecycle ==
    /\ tasks.ready =>
          /\ tasks.pc = "started"
          /\ tasks.startErr = Nil
          /\ \A l \in Listeners : tasks.listener[l] # "failed"
          /\ tasks.grpc = "serving"
    /\ tasks.pc \in {"new", "dns", "grpc", "failed"} => ~tasks.ready
    /\ tasks.stops # <<>> => ~tasks.ready

\* the components App.Shutdown has to shut down, in its order
ShutdownOrder == <<"http", "grpc", "udp", "tcp">>

\* C36: App.Shutdown calls the shutdown of the HTTP server, the gRPC
\* server and the DNS server in this order whatever the earlier ones
\* returned, the DNS server's shutdown covers the UDP and the TCP listener,
\* and App.Shutdown returns an error exactly when one of them failed.
C36_ShutdownReachesEveryComponent ==
    /\ \E n \in 0..Len(ShutdownOrder) : tasks.stops = SubSeq(ShutdownOrder, 1, n)
    /\ tasks.pc = "stopped" =>
          /\ tasks.stops = ShutdownOrder
          /\ tasks.ret # Nil <=> tasks.failed # {}

\* C36 witness: the HTTP shutdown and the UDP shutdown failed, the gRPC and
\* the TCP shutdown were still called, and App.Shutdown returned an error
C36_Witness ==
    /\ tasks.pc = "stopped"
    /\ tasks.failed = {"http", "udp"}
    /\ tasks.stops = ShutdownOrder
    /\ tasks.ret # Nil

\* C37: a handler that was given a message attempts no send while it is
\* routing or about to write, has attempted exactly one when it returns, on
\* the success path and on the routing-error path alike, and never a
\* second; and every handler that was given a message gets to its return
\* with that one attempt made.
C37_OneSendPerMessage ==
    /\ [](\A h \in Handlers :
            /\ handlers[h].sends <= 1
            /\ handlers[h].pc \in {"route", "write"} => handlers[h].sends = 0
            /\ handlers[h].pc = "return" => handlers[h].sends = 1)
    /\ \A h \in Handlers :
          (handlers[h].pc = "route")
              ~> (handlers[h].pc = "return" /\ handlers[h].sends = 1)

\* C37 witness: one handler returns from a routing error and another from
\* a routed reply, each after one send
C37_Witness ==
    \E g \in Handlers, h \in Handlers :
        /\ handlers[g].pc = "return"
        /\ handlers[g].path = "routing error"
        /\ handlers[g].sends = 1
        /\ handlers[h].pc = "return"
        /\ handlers[h].path = "success"
        /\ handlers[h].sends = 1

\* C38: when a query is done on either front end, what the client got is
\* what that front end makes of the request and of Route's outcome, and the
\* other front end makes the same of them: the DNS handler and Query
\* deliver the same message in wire form, or both deliver none, and a
\* delivered message carries the request's ID, its RCODE is SERVFAIL on a
\* routing error and the routed reply's otherwise, and its sections are
\* those of the routed reply or, on a routing error, the first question.
C38_FrontEndsAgree ==
    FrontEndDone =>
        LET viaDNS == OnTheWire("dns", Delivered("dns", req, RouteOutcome))
            viaGRPC == OnTheWire("grpc", Delivered("grpc", req, RouteOutcome))
        IN  /\ OnTheWire(transport, sent) = OnTheWire("dns", Delivered("dns", req, RouteOutcome))
            /\ viaDNS = viaGRPC
            /\ \A i \in 1..Len(viaGRPC) :
                  LET m == Unpack(viaGRPC[i])
                  IN  /\ m.Id = req.Id
                      /\ IF RouteOutcome.kind = "err"
                         THEN m = SetRcode(req, RcodeServerFailure)
                         ELSE m = [result.Response EXCEPT !.Id = req.Id]

\* C38 witness: Query has returned a routed reply that the upstream sent
\* under another ID
C38_Witness ==
    /\ FrontEndDone
    /\ transport = "grpc"
    /\ routeErr = Nil
    /\ Len(req.Question) > 0
    /\ result.Response.Id # req.Id
    /\ sent = <<Pack(handleRequestReply(req, RouteOutcome))>>

====
